---- MODULE Spec2Model ----
(***************************************************************************)
(* Machine-log backend (Django): the ingestion gate log_machine_data of    *)
(* project/logs/views.py with its ID-offset duplicate policy, and the      *)
(* shift-bounded operator reports computed from the MachineLog table.      *)
(*                                                                         *)
(* The MachineLog table is the sequence store (position = primary key =    *)
(* creation order).  Each request worker runs one view at a time; a view   *)
(* is split into steps exactly at its database accesses, because nothing   *)
(* in the views opens a transaction: every query is its own statement.     *)
(***************************************************************************)
EXTENDS Integers, Sequences, FiniteSets, TLC

VARIABLES
    store,      \* MachineLog table: sequence of rows, in insertion order
    pc,         \* per worker: position inside log_machine_data
    req,        \* per worker: request.data of the current/last call
    vd,         \* per worker: serializer.validated_data of the call
    resp,       \* per worker: the Response returned by the last call
    created,    \* per worker: primary key of the row the call created, 0 if none
    calls,      \* number of log_machine_data calls started so far
    startLen,   \* history: per worker, Len(store) when its call was received
    chkLen,     \* history: per worker, Len(store) when its Str_LOGID lookup ran
    incoming,   \* history: per row, the Str_LOGID as it arrived on the wire
    overlap,    \* history: TRUE once two calls have been in flight together
    report      \* the Response of the last report view that ran

vars == <<store, pc, req, vd, resp, created, calls, startLen, chkLen,
          incoming, overlap, report>>

gateVars == <<pc, req, vd, resp, created, calls, startLen, chkLen,
              incoming, overlap>>

(***************************************************************************)
(* Bounds of the model.                                                    *)
(***************************************************************************)
MaxCalls == 3

Workers == {"w1", "w2"}

(***************************************************************************)
(* Wire values.  A JSON field is an integer, absent (None) or a string     *)
(* that is not a number.                                                   *)
(***************************************************************************)
Num(n) == [k |-> "int", n |-> n]

None == [k |-> "none", n |-> 0]

Text == [k |-> "text", n |-> 0]

\* constants.py: the mode taxonomy of the project app.
MODES == {1, 2, 3, 4, 5}

\* The offset a device adds to a log id to mark a retransmission.
LOGID_OFFSET == 1000

Marked(id) == id > LOGID_OFFSET

\* Mutation: the offset is not taken off.
AdjustedIdKept(id) == id

AdjustedId(id) == id - LOGID_OFFSET

(***************************************************************************)
(* Requests.  START_TIME and END_TIME travel as "H:MM[:SS]"; the model     *)
(* carries the string already split at ':' (<<>> when the key is absent).  *)
(* DATE travels as "YYYY:MM:DD"; the model carries the day number, None    *)
(* when absent and Text when strptime rejects the string.  The remaining   *)
(* fields are always present and well formed in the requests enumerated   *)
(* here.                                                                   *)
(***************************************************************************)
BasePayload ==
    [MACHINE_ID |-> Num(1), LINE_NUMB |-> 1, OPERATOR_ID |-> "A",
     DATE |-> Num(1), START_TIME |-> <<9, 0, 0>>, END_TIME |-> <<10, 0, 0>>,
     MODE |-> Num(1), STITCH_COUNT |-> 10, NEEDLE_RUNTIME |-> 60,
     NEEDLE_STOPTIME |-> 0, Tx_LOGID |-> 7, Str_LOGID |-> 5,
     DEVICE_ID |-> 1, RESERVE |-> Num(3000)]

StrIds == {-995, 5, 1005}

TxIds == {7, 1007}

StartTimes == {<<9, 0, 0>>, <<9, 30>>}

ValidPayloads ==
    {[BasePayload EXCEPT !.Str_LOGID = s, !.Tx_LOGID = t,
                         !.START_TIME = st, !.MODE = Num(m)] :
        s \in StrIds, t \in TxIds, st \in StartTimes, m \in {1}}

InvalidPayloads ==
    {[BasePayload EXCEPT !.MODE = None],
     [BasePayload EXCEPT !.MODE = Text],
     [BasePayload EXCEPT !.MODE = Num(9)],
     [BasePayload EXCEPT !.MACHINE_ID = None],
     [BasePayload EXCEPT !.DATE = None],
     [BasePayload EXCEPT !.DATE = Text],
     [BasePayload EXCEPT !.START_TIME = <<>>],
     [BasePayload EXCEPT !.END_TIME = <<>>],
     [BasePayload EXCEPT !.END_TIME = <<25, 0, 0>>]}

GatePayloads == ValidPayloads \cup InvalidPayloads

(***************************************************************************)
(* MachineLogSerializer.                                                   *)
(***************************************************************************)
\* _validate_time: two or three parts, re-formatted and parsed by strptime.
TimeOk(parts) ==
    /\ Len(parts) \in {2, 3}
    /\ parts[1] \in 0..23
    /\ parts[2] \in 0..59
    /\ (Len(parts) = 3 => parts[3] \in 0..59)

\* The TimeField value, as seconds since midnight.
ParseTime(parts) ==
    parts[1] * 3600 + parts[2] * 60 + (IF Len(parts) = 3 THEN parts[3] ELSE 0)

\* serializer.is_valid(): every model field is required; DATE and the times
\* go through validate_DATE and _validate_time.
SerializerValid(data) ==
    /\ data.MACHINE_ID.k = "int"
    /\ data.MODE.k = "int"
    /\ data.DATE.k = "int"
    /\ TimeOk(data.START_TIME)
    /\ TimeOk(data.END_TIME)

\* serializer.validated_data: the model-typed values.
ValidatedData(data) ==
    [MACHINE_ID |-> data.MACHINE_ID.n, LINE_NUMB |-> data.LINE_NUMB,
     OPERATOR_ID |-> data.OPERATOR_ID, DATE |-> data.DATE.n,
     START_TIME |-> ParseTime(data.START_TIME),
     END_TIME |-> ParseTime(data.END_TIME),
     MODE |-> data.MODE.n, STITCH_COUNT |-> data.STITCH_COUNT,
     NEEDLE_RUNTIME |-> data.NEEDLE_RUNTIME,
     NEEDLE_STOPTIME |-> data.NEEDLE_STOPTIME,
     Tx_LOGID |-> data.Tx_LOGID, Str_LOGID |-> data.Str_LOGID,
     DEVICE_ID |-> data.DEVICE_ID, RESERVE |-> data.RESERVE]

\* The value vd holds while no validated data exists.
BlankLog ==
    [MACHINE_ID |-> 0, LINE_NUMB |-> 0, OPERATOR_ID |-> "", DATE |-> 0,
     START_TIME |-> 0, END_TIME |-> 0, MODE |-> 0, STITCH_COUNT |-> 0,
     NEEDLE_RUNTIME |-> 0, NEEDLE_STOPTIME |-> 0, Tx_LOGID |-> 0,
     Str_LOGID |-> 0, DEVICE_ID |-> 0, RESERVE |-> None]

(***************************************************************************)
(* Responses of log_machine_data.  code = 0 stands for a body without a    *)
(* "code" key.                                                             *)
(***************************************************************************)
NoResponse == [status |-> 0, code |-> 0, message |-> ""]

\* Lines 138-141: the row was saved.
LogSaved == [status |-> 200, code |-> 200, message |-> "Log saved successfully"]

\* What the sibling app machine_log_api answers to a duplicate.
DuplicateConflict == [status |-> 409, code |-> 0, message |-> "Duplicate entry found"]

\* Lines 102-105 and 127-130: the request was recognised as a duplicate.
DuplicateAnswer == [status |-> 200, code |-> 200, message |-> "Log saved successfully"]

BadRequest(msg) == [status |-> 400, code |-> 0, message |-> msg]

\* Mutation: any integer mode is let through.
ModeAcceptedAnyInt(data) == data.MODE.k = "int"

\* int(data.get("MODE")) succeeds and the result is a key of MODES.
ModeAccepted(data) == data.MODE.k = "int" /\ data.MODE.n \in MODES

\* Lines 48-82: the 400 response of a request that is turned away, or
\* NoResponse when the request passes validation.
Rejection(data) ==
    IF data.MODE.k # "int" THEN BadRequest("Invalid mode format")
    ELSE IF ~ModeAccepted(data) THEN BadRequest("Invalid mode")
    ELSE IF ~SerializerValid(data) THEN BadRequest("Validation failed")
    ELSE NoResponse

(***************************************************************************)
(* The two existence queries of the duplicate policy.                      *)
(***************************************************************************)
\* Mutation: END_TIME is compared with the request's START_TIME.
SameEventWrongTime(row, d) ==
    /\ row.MACHINE_ID = d.MACHINE_ID
    /\ row.DATE = d.DATE
    /\ row.START_TIME = d.START_TIME
    /\ row.END_TIME = d.START_TIME

\* Mutation: the lookup also requires the same MODE, OPERATOR_ID and
\* LINE_NUMB.
SameEventFullRow(row, d) ==
    /\ row.MACHINE_ID = d.MACHINE_ID
    /\ row.DATE = d.DATE
    /\ row.START_TIME = d.START_TIME
    /\ row.END_TIME = d.END_TIME
    /\ row.MODE = d.MODE
    /\ row.OPERATOR_ID = d.OPERATOR_ID
    /\ row.LINE_NUMB = d.LINE_NUMB

SameEvent(row, d) ==
    /\ row.MACHINE_ID = d.MACHINE_ID
    /\ row.DATE = d.DATE
    /\ row.START_TIME = d.START_TIME
    /\ row.END_TIME = d.END_TIME

TxExists(table, d) ==
    \E i \in 1..Len(table) :
        table[i].Tx_LOGID = AdjustedId(d.Tx_LOGID) /\ SameEvent(table[i], d)

\* Mutation: the lookup is pasted from the Tx_LOGID block and reads Tx_LOGID.
StrExistsOnTxColumn(table, d) ==
    \E i \in 1..Len(table) :
        table[i].Tx_LOGID = AdjustedId(d.Str_LOGID) /\ SameEvent(table[i], d)

\* Mutation: the lookup uses the id as received.
StrExistsUnadjusted(table, d) ==
    \E i \in 1..Len(table) :
        table[i].Str_LOGID = d.Str_LOGID /\ SameEvent(table[i], d)

StrExists(table, d) ==
    \E i \in 1..Len(table) :
        table[i].Str_LOGID = AdjustedId(d.Str_LOGID) /\ SameEvent(table[i], d)

\* Mutation: the offset stays in the saved Str_LOGID.
StoredDataOffsetKept(d) == d

\* Mutation: Tx_LOGID is adjusted as well, as the docstring describes.
StoredDataTxAdjusted(d) ==
    [d EXCEPT !.Str_LOGID = IF Marked(@) THEN AdjustedId(@) ELSE @,
              !.Tx_LOGID = IF Marked(@) THEN AdjustedId(@) ELSE @]

\* Line 133: the row that is saved carries the adjusted Str_LOGID; Tx_LOGID
\* stays as validated.
StoredData(d) ==
    IF Marked(d.Str_LOGID)
    THEN [d EXCEPT !.Str_LOGID = AdjustedId(d.Str_LOGID)]
    ELSE d

\* Mutation: update_or_create semantics, the newest row is overwritten.
InsertOverwriting(table, row) ==
    IF table = <<>> THEN <<row>> ELSE [table EXCEPT ![Len(table)] = row]

\* MachineLog.objects.create(**validated_data)
Insert(table, row) == Append(table, row)

\* The first database access a validated request reaches: lookups are made
\* only for marked ids, so the purely local steps in between are skipped.
AfterValidation(d) ==
    IF Marked(d.Tx_LOGID) THEN "tx"
    ELSE IF Marked(d.Str_LOGID) THEN "str"
    ELSE "create"

AfterTxLookup(d) == IF Marked(d.Str_LOGID) THEN "str" ELSE "create"

InFlight(p) == pc[p] \in {"tx", "str", "create"}

(***************************************************************************)
(* log_machine_data, step by step.                                         *)
(***************************************************************************)
\* Lines 45-82: the request arrives and is validated.
Receive(p, payloads, maxCalls) ==
    /\ ~InFlight(p)
    /\ calls < maxCalls
    /\ \E data \in payloads :
         /\ req' = [req EXCEPT ![p] = data]
         /\ resp' = [resp EXCEPT ![p] = Rejection(data)]
         /\ IF Rejection(data) = NoResponse
            THEN /\ vd' = [vd EXCEPT ![p] = ValidatedData(data)]
                 /\ pc' = [pc EXCEPT ![p] = AfterValidation(ValidatedData(data))]
            ELSE /\ vd' = [vd EXCEPT ![p] = BlankLog]
                 /\ pc' = [pc EXCEPT ![p] = "done"]
    /\ created' = [created EXCEPT ![p] = 0]
    /\ calls' = calls + 1
    /\ startLen' = [startLen EXCEPT ![p] = Len(store)]
    /\ chkLen' = [chkLen EXCEPT ![p] = 0]
    /\ overlap' = (overlap \/ \E q \in Workers \ {p} : InFlight(q))
    /\ UNCHANGED <<store, incoming, report>>

\* Lines 84-107: the Tx_LOGID lookup of a marked Tx_LOGID.
TxCheck(p) ==
    /\ pc[p] = "tx"
    /\ IF TxExists(store, vd[p])
       THEN /\ resp' = [resp EXCEPT ![p] = DuplicateAnswer]
            /\ pc' = [pc EXCEPT ![p] = "done"]
       ELSE /\ pc' = [pc EXCEPT ![p] = AfterTxLookup(vd[p])]
            /\ UNCHANGED resp
    /\ UNCHANGED <<store, req, vd, created, calls, startLen, chkLen,
                   incoming, overlap, report>>

\* Lines 109-133: the Str_LOGID lookup of a marked Str_LOGID.
StrCheck(p) ==
    /\ pc[p] = "str"
    /\ chkLen' = [chkLen EXCEPT ![p] = Len(store)]
    /\ IF StrExists(store, vd[p])
       THEN /\ resp' = [resp EXCEPT ![p] = DuplicateAnswer]
            /\ pc' = [pc EXCEPT ![p] = "done"]
       ELSE /\ pc' = [pc EXCEPT ![p] = "create"]
            /\ UNCHANGED resp
    /\ UNCHANGED <<store, req, vd, created, calls, startLen, incoming,
                   overlap, report>>

\* Lines 135-141: the row is saved and the success response returned.
Create(p) ==
    /\ pc[p] = "create"
    /\ store' = Insert(store, StoredData(vd[p]))
    /\ created' = [created EXCEPT ![p] = Len(store')]
    /\ incoming' = Append(incoming, req[p].Str_LOGID)
    /\ resp' = [resp EXCEPT ![p] = LogSaved]
    /\ pc' = [pc EXCEPT ![p] = "done"]
    /\ UNCHANGED <<req, vd, calls, startLen, chkLen, overlap, report>>

(***************************************************************************)
(* Report views.  Hours are carried as whole seconds (every duration and   *)
(* every availability figure of the views is a whole number of seconds);   *)
(* percentages are carried in hundredths of a percent, which is what       *)
(* round(x, 2) keeps of them.                                              *)
(***************************************************************************)
\* The Operator table (owned by the admin surface, never written here).
Operators ==
    {[rfid_card_no |-> "A", operator_name |-> "Asha"],
     [rfid_card_no |-> "B", operator_name |-> "Bala"]}

ValidOperatorIds == {o.rfid_card_no : o \in Operators}

\* Day numbers: datetime.now().date() of the model, and the day before.
Today == 3

Yesterday == Today - 1

SHIFT_START == 30300

SHIFT_END == 70500

BREAK1_START == 37800

BREAK1_END == 38400

BREAK2_START == 48000

BREAK2_END == 50400

BREAK3_START == 58800

BREAK3_END == 59400

\* (70500 - 30300) / 3600 - 1 hours of a past day, in seconds.
PAST_DAY_SECONDS == 36600

\* operator_reports_all: 8.5 h and 19.5 h as seconds, 10 h per working day.
ALL_SHIFT_START == 30600

ALL_SHIFT_END == 70200

ALL_DAY_SECONDS == 36000

RECURSIVE Total(_, _)
\* Sum('...') over the rows S of a queryset, f giving each row's value.
Total(f, S) ==
    IF S = {} THEN 0
    ELSE LET x == CHOOSE y \in S : TRUE IN f[x] + Total(f, S \ {x})

Min(a, b) == IF a < b THEN a ELSE b

Max(a, b) == IF a > b THEN a ELSE b

\* round(a / b * 100, 2) in hundredths of a percent (b > 0), computed from
\* quotient and remainder so that no intermediate product leaves 32 bits.
Percent(a, b) == (a \div b) * 10000 + ((a % b) * 10000 + b \div 2) \div b

HUNDRED_PERCENT == 10000

\* filter(DATE__gte=from_date) / filter(DATE__lte=to_date); 0 = not given.
InDates(row, from, to) ==
    /\ (from # 0 => row.DATE >= from)
    /\ (to # 0 => row.DATE <= to)

\* filter(start_seconds__gte=30300, end_seconds__lte=70500)
WithinShift(row) == row.START_TIME >= SHIFT_START /\ row.END_TIME <= SHIFT_END

\* A break exclusion that also drops the records overlapping a break partly.
InBreakOverlapping(row) ==
    \/ (row.END_TIME > BREAK1_START /\ row.START_TIME < BREAK1_END)
    \/ (row.END_TIME > BREAK2_START /\ row.START_TIME < BREAK2_END)
    \/ (row.END_TIME > BREAK3_START /\ row.START_TIME < BREAK3_END)

\* The Q(...) | Q(...) | Q(...) of the break exclusion.
InBreak(row) ==
    \/ (row.START_TIME >= BREAK1_START /\ row.END_TIME <= BREAK1_END)
    \/ (row.START_TIME >= BREAK2_START /\ row.END_TIME <= BREAK2_END)
    \/ (row.START_TIME >= BREAK3_START /\ row.END_TIME <= BREAK3_END)

\* Case(When(lt=lo, lo), When(gt=hi, hi), default=F(...))
Clamp(t, lo, hi) == IF t < lo THEN lo ELSE IF t > hi THEN hi ELSE t

\* duration_hours of operator_reports_by_name and operator_reports_all.
ClippedDuration(row, lo, hi) ==
    IF row.END_TIME <= lo \/ row.START_TIME >= hi THEN 0
    ELSE Clamp(row.END_TIME, lo, hi) - Clamp(row.START_TIME, lo, hi)

\* duration_hours of line_reports, machine_reports, get_consolidated_logs.
RawDuration(row) == row.END_TIME - row.START_TIME

\* exclude(Q(OPERATOR_ID=0) & Q(MODE=2))
LoggedOutIdle(row) == row.OPERATOR_ID = "0" /\ row.MODE = 2

Rows(table) == 1..Len(table)

\* Sum of dur over the rows of S in the given mode.
ModeSeconds(table, S, m, lo, hi) ==
    Total([i \in S |-> IF table[i].MODE = m
                        THEN ClippedDuration(table[i], lo, hi) ELSE 0], S)

RawModeSeconds(table, S, m) ==
    Total([i \in S |-> IF table[i].MODE = m THEN RawDuration(table[i]) ELSE 0], S)

StitchTotal(table, S) == Total([i \in S |-> table[i].STITCH_COUNT], S)

DatesOf(table, S) == {table[i].DATE : i \in S}

\* round(a / b, 2) in hundredths (b > 0), from quotient and remainder.
Hundredths(a, b) == (a \div b) * 100 + ((a % b) * 100 + b \div 2) \div b

\* round(seconds / 3600, 2): the hours figure a response carries, in
\* hundredths of an hour.
RoundedHours(seconds) == Hundredths(seconds, 3600)

\* reserve_numeric = Cast('RESERVE', IntegerField()): the number held by a
\* numeric RESERVE; a null RESERVE casts to NULL, which no reserve_numeric
\* comparison selects (0 here).  Non-numeric text is not sent by the devices
\* enumerated here.
ReserveNumeric(row) == IF row.RESERVE.k = "int" THEN row.RESERVE.n ELSE 0

\* logs.filter(reserve_numeric__gt=0)
ValidSpeedLogs(table, S) == {i \in S : ReserveNumeric(table[i]) > 0}

\* Lines 575-579, 891-895, 2428-2432: Avg('reserve_numeric') over the valid
\* speed logs, "or 0" when there is none; in hundredths.
AverageSewingSpeed(table, S) ==
    LET V == ValidSpeedLogs(table, S)
    IN  IF V = {} THEN 0
        ELSE Hundredths(Total([i \in V |-> ReserveNumeric(table[i])], V),
                        Cardinality(V))

\* logs.filter(MODE=1)
SewingLogs(table, S) == {i \in S : table[i].MODE = 1}

\* Sum('NEEDLE_RUNTIME') over the rows S, in seconds.
NeedleTotal(table, S) == Total([i \in S |-> table[i].NEEDLE_RUNTIME], S)

\* total_needle_runtime / needle_runtime_instances if instances > 0 else 0,
\* rounded to hundredths of a second.
AverageNeedleRuntime(needle, instances) ==
    IF instances > 0 THEN Hundredths(needle, instances) ELSE 0

\* (total_needle_runtime / 3600) / productive hours * 100 if productive
\* hours > 0 else 0: both in seconds here, the result in hundredths of a
\* percent.
NeedleRuntimePercentage(needle, productive) ==
    IF productive > 0 THEN Percent(needle, productive) ELSE 0

(***************************************************************************)
(* operator_reports_by_name                                                *)
(***************************************************************************)
\* A queryset without the filters of lines 471-477.
ByNameLogsNoWindow(table, name, from, to) ==
    {i \in Rows(table) :
        /\ (name # "All" =>
              \E o \in Operators : /\ o.operator_name = name
                                   /\ table[i].OPERATOR_ID = o.rfid_card_no)
        /\ InDates(table[i], from, to)
        /\ ~LoggedOutIdle(table[i])
        /\ ~InBreak(table[i])}

\* Lines 401-484: the queryset the report works on.
ByNameLogs(table, name, from, to) ==
    {i \in Rows(table) :
        /\ (name # "All" =>
              \E o \in Operators : /\ o.operator_name = name
                                   /\ table[i].OPERATOR_ID = o.rfid_card_no)
        /\ InDates(table[i], from, to)
        /\ ~LoggedOutIdle(table[i])
        /\ ClippedDuration(table[i], SHIFT_START, SHIFT_END) > 0
        /\ WithinShift(table[i])
        /\ ~InBreak(table[i])}

\* An availability that counts the whole shift window, breaks included,
\* for every day but today.
DayAvailableWholeShift(day, today, now) ==
    IF day = today
    THEN IF now < SHIFT_START THEN 0 ELSE Min(now, SHIFT_END) - SHIFT_START
    ELSE SHIFT_END - SHIFT_START

\* Lines 499-529 and 650-680: the available seconds of one day.
DayAvailable(day, today, now) ==
    IF day = today
    THEN IF now < SHIFT_START THEN 0
         ELSE Min(now, SHIFT_END) - SHIFT_START
              - (IF now > BREAK1_END THEN 600 ELSE 0)
              - (IF now > BREAK2_END THEN 2400 ELSE 0)
              - (IF now > BREAK3_END THEN 600 ELSE 0)
    ELSE PAST_DAY_SECONDS

\* Line 572 and line 692: productive share of the available time.
ProductivePercent(productive, available) ==
    IF available > 0 THEN Percent(productive, available) ELSE 0

\* Lines 634-710: one row of tableData, for one (DATE, OPERATOR_ID) group.
ByNameRow(table, S, day, op, today, now) ==
    LET G == {i \in S : table[i].DATE = day /\ table[i].OPERATOR_ID = op}
        avail == DayAvailable(day, today, now)
        sewing == ModeSeconds(table, G, 1, SHIFT_START, SHIFT_END)
        meeting == ModeSeconds(table, G, 4, SHIFT_START, SHIFT_END)
        nofeed == ModeSeconds(table, G, 3, SHIFT_START, SHIFT_END)
        maint == ModeSeconds(table, G, 5, SHIFT_START, SHIFT_END)
        pt == ProductivePercent(sewing, avail)
    IN  [Date |-> day, OperatorID |-> op, TotalHours |-> avail,
         SewingHours |-> sewing, MeetingHours |-> meeting,
         NoFeedingHours |-> nofeed, MaintenanceHours |-> maint,
         IdleHours |-> Max(avail - (sewing + meeting + nofeed + maint), 0),
         ProductivePercent |-> pt, NPTPercent |-> HUNDRED_PERCENT - pt,
         StitchCount |-> StitchTotal(table, G)]

\* Lines 384-726: the response, kept together with the request it answers
\* (name, from, to) and the clock the view read (today, now).  tableData is
\* carried as the set of its rows.
OperatorReportByName(table, name, from, to, today, now) ==
    IF name # "All" /\ ~\E o \in Operators : o.operator_name = name
    THEN [view |-> "operator_reports_by_name", status |-> 404, name |-> name,
          from |-> from, to |-> to, today |-> today, now |-> now]
    ELSE
    LET S == ByNameLogs(table, name, from, to)
        days == DatesOf(table, S)
        avail == Total([d \in days |-> DayAvailable(d, today, now)], days)
        production == ModeSeconds(table, S, 1, SHIFT_START, SHIFT_END)
        meeting == ModeSeconds(table, S, 4, SHIFT_START, SHIFT_END)
        nofeed == ModeSeconds(table, S, 3, SHIFT_START, SHIFT_END)
        maint == ModeSeconds(table, S, 5, SHIFT_START, SHIFT_END)
        idle == Max(avail - (production + nofeed + meeting + maint), 0)
        nonprod == nofeed + meeting + maint + idle
    IN  [view |-> "operator_reports_by_name", status |-> 200, name |-> name,
         from |-> from, to |-> to, today |-> today, now |-> now,
         totalHours |-> avail,
         totalProductionHours |-> production,
         totalNonProductionHours |-> nonprod,
         totalIdleHours |-> idle,
         productionPercentage |-> ProductivePercent(production, avail),
         nptPercentage |-> IF avail > 0 THEN Percent(nonprod, avail) ELSE 0,
         averageSewingSpeed |-> AverageSewingSpeed(table, S),
         totalStitchCount |-> StitchTotal(table, S),
         totalNeedleRuntime |->
            AverageNeedleRuntime(NeedleTotal(table, SewingLogs(table, S)),
                                 Cardinality(SewingLogs(table, S))),
         needleRuntimePercentage |->
            NeedleRuntimePercentage(NeedleTotal(table, SewingLogs(table, S)),
                                    production),
         tableData |->
            {ByNameRow(table, S, table[i].DATE, table[i].OPERATOR_ID, today, now) :
                i \in S}]

(***************************************************************************)
(* operator_reports_all                                                    *)
(***************************************************************************)
\* Lines 1520-1578: the queryset of one operator.  The break bounds are
\* written as 10.6667 * 3600 etc.; against whole seconds they select the
\* same rows as the whole-second bounds.
AllOperatorsLogs(table, rfid, from, to) ==
    {i \in Rows(table) :
        /\ table[i].OPERATOR_ID = rfid
        /\ InDates(table[i], from, to)
        /\ ~LoggedOutIdle(table[i])
        /\ ClippedDuration(table[i], ALL_SHIFT_START, ALL_SHIFT_END) > 0
        /\ ~InBreak(table[i])}

\* Lines 1580-1603: the entry of one operator.
AllOperatorsEntry(table, o, from, to) ==
    LET S == AllOperatorsLogs(table, o.rfid_card_no, from, to)
        avail == Cardinality(DatesOf(table, S)) * ALL_DAY_SECONDS
        production == ModeSeconds(table, S, 1, ALL_SHIFT_START, ALL_SHIFT_END)
        pt == ProductivePercent(production, avail)
    IN  [operatorId |-> o.rfid_card_no, operatorName |-> o.operator_name,
         totalProductionHours |-> production,
         totalNonProductionHours |-> avail - production,
         productionPercentage |-> pt,
         nptPercentage |-> HUNDRED_PERCENT - pt]

\* Lines 1499-1605: the response, one entry per operator.
OperatorReportsAll(table, from, to) ==
    [view |-> "operator_reports_all", status |-> 200,
     entries |-> {AllOperatorsEntry(table, o, from, to) : o \in Operators}]

(***************************************************************************)
(* line_reports and machine_reports                                        *)
(***************************************************************************)
\* machine_reports' helper counts 11 hours per working day.
MACHINE_DAY_SECONDS == 39600

\* Lines 1009-1019, 1384-1394, 2030-2043: shift filter and break exclusion.
ShiftLogs(table, S) == {i \in S : WithinShift(table[i]) /\ ~InBreak(table[i])}

\* The per-date aggregation both helpers run (values('DATE').annotate(...))
\* and the row they format from it.
DailyRow(table, S, day) ==
    LET G == {i \in S : table[i].DATE = day}
        sewing == RawModeSeconds(table, G, 1)
        nofeed == RawModeSeconds(table, G, 3)
        meeting == RawModeSeconds(table, G, 4)
        maint == RawModeSeconds(table, G, 5)
        idle == RawModeSeconds(table, G, 2)
        npt == nofeed + meeting + maint + idle
        total == sewing + npt
    IN  [Date |-> day, SewingHours |-> sewing, NoFeedingHours |-> nofeed,
         MeetingHours |-> meeting, MaintenanceHours |-> maint,
         IdleHours |-> idle, TotalHours |-> total,
         ProductivePercent |-> IF total > 0 THEN Percent(sewing, total) ELSE 0,
         NPTPercent |-> IF total > 0 THEN Percent(npt, total) ELSE 0,
         StitchCount |-> StitchTotal(table, G),
         MachineCount |-> Cardinality({table[i].MACHINE_ID : i \in G})]

\* Lines 733-930.
ProcessLineData(table, S, line) ==
    LET sewing == RawModeSeconds(table, S, 1)
        nofeed == RawModeSeconds(table, S, 3)
        meeting == RawModeSeconds(table, S, 4)
        maint == RawModeSeconds(table, S, 5)
        idle == RawModeSeconds(table, S, 2)
        npt == nofeed + meeting + maint + idle
        total == sewing + npt
    IN  [lineNumber |-> line,
         totalIdealHours |-> idle,
         totalWorkingDays |-> Cardinality(DatesOf(table, S)),
         totalHours |-> total,
         productiveHours |-> sewing,
         productivePercent |-> IF total > 0 THEN Percent(sewing, total) ELSE 0,
         nonProductiveHours |-> npt,
         nonProductivePercent |-> IF total > 0 THEN Percent(npt, total) ELSE 0,
         noFeedingHours |-> nofeed, meetingHours |-> meeting,
         maintenanceHours |-> maint, idleHours |-> idle,
         totalStitchCount |-> StitchTotal(table, S),
         averageSewingSpeed |-> AverageSewingSpeed(table, S),
         totalNeedleRuntime |->
            AverageNeedleRuntime(NeedleTotal(table, S),
                                 Cardinality(SewingLogs(table, S))),
         needleRuntimePercentage |->
            NeedleRuntimePercentage(NeedleTotal(table, S), sewing),
         tableData |-> {DailyRow(table, S, d) : d \in DatesOf(table, S)}]

\* Lines 2294-2457: the definition of process_machine_data in force (it
\* replaces the one of lines 1106-1311 when the module is loaded).
ProcessMachineData(table, S, machine) ==
    LET sewing == RawModeSeconds(table, S, 1)
        nofeed == RawModeSeconds(table, S, 3)
        meeting == RawModeSeconds(table, S, 4)
        maint == RawModeSeconds(table, S, 5)
        idle == RawModeSeconds(table, S, 2)
        npt == nofeed + meeting + maint + idle
        total == sewing + npt
    IN  [machineId |-> machine,
         totalAvailableHours |-> Cardinality(DatesOf(table, S)) * MACHINE_DAY_SECONDS,
         totalWorkingDays |-> Cardinality(DatesOf(table, S)),
         totalHours |-> total,
         productiveHours |-> sewing,
         productivePercent |-> IF total > 0 THEN Percent(sewing, total) ELSE 0,
         nonProductiveHours |-> npt,
         nonProductivePercent |-> IF total > 0 THEN Percent(npt, total) ELSE 0,
         noFeedingHours |-> nofeed, meetingHours |-> meeting,
         maintenanceHours |-> maint, idleHours |-> idle,
         totalStitchCount |-> StitchTotal(table, S),
         averageSewingSpeed |-> AverageSewingSpeed(table, S),
         totalNeedleRuntime |-> NeedleTotal(table, S),
         tableData |-> {DailyRow(table, S, d) : d \in DatesOf(table, S)}]

\* round(a / b, 2) of two figures both carried in hundredths, or of a figure
\* in ten-thousandths by one in hundredths (b > 0): the result in hundredths.
Rounded(a, b) == (2 * a + b) \div (2 * b)

\* Lines 1024-1071 and 1086-1089: the summary over the per-line reports of
\* line_reports 'all'.  It is accumulated from the figures each line report
\* carries, that is from the rounded ones.
LineSummary(table, S) ==
    LET L == {table[i].LINE_NUMB : i \in S}
        rep == [l \in L |->
                   ProcessLineData(table, {i \in S : table[i].LINE_NUMB = l}, l)]
        hours == Total([l \in L |-> RoundedHours(rep[l].totalHours)], L)
        productive == Total([l \in L |-> RoundedHours(rep[l].productiveHours)], L)
        needle == Total([l \in L |-> rep[l].totalNeedleRuntime], L)
        speed_sum == Total([l \in L |-> rep[l].averageSewingSpeed
                                           * RoundedHours(rep[l].totalHours)], L)
        speed_count == hours
    IN  [totalLines |-> Cardinality(L),
         totalHours |-> hours,
         totalProductiveTime |-> productive,
         totalNeedleRuntime |-> needle,
         averageSewingSpeed |->
            IF speed_count > 0 THEN Rounded(speed_sum, speed_count) ELSE 0,
         needleRuntimePercentage |->
            IF productive > 0 THEN Percent(needle, productive) ELSE 0]

\* Lines 937-1099.  key.k = "all" for the literal 'all', "int" for a number,
\* "text" for a string int() rejects.
LineReports(table, key, from, to) ==
    IF key.k = "text"
    THEN [view |-> "line_reports", status |-> 400, key |-> key,
          from |-> from, to |-> to]
    ELSE
    LET S == ShiftLogs(table,
                {i \in Rows(table) :
                    /\ table[i].OPERATOR_ID \in ValidOperatorIds
                    /\ (key.k = "int" => table[i].LINE_NUMB = key.n)
                    /\ InDates(table[i], from, to)})
    IN  IF key.k = "all"
        THEN [view |-> "line_reports", status |-> 200, key |-> key,
              from |-> from, to |-> to,
              reports |->
                 {ProcessLineData(table, {i \in S : table[i].LINE_NUMB = l}, l) :
                     l \in {table[i].LINE_NUMB : i \in S}},
              summary |-> LineSummary(table, S)]
        ELSE [view |-> "line_reports", status |-> 200, key |-> key,
              from |-> from, to |-> to,
              reports |-> {ProcessLineData(table, S, key.n)}]

\* Lines 1314-1417.
MachineReports(table, key, from, to) ==
    IF key.k = "text"
    THEN [view |-> "machine_reports", status |-> 400, key |-> key,
          from |-> from, to |-> to]
    ELSE
    LET S == ShiftLogs(table,
                {i \in Rows(table) :
                    /\ table[i].OPERATOR_ID \in ValidOperatorIds
                    /\ (key.k = "int" => table[i].MACHINE_ID = key.n)
                    /\ InDates(table[i], from, to)})
    IN  IF key.k = "all"
        THEN [view |-> "machine_reports", status |-> 200, key |-> key,
              from |-> from, to |-> to,
              reports |->
                 {ProcessMachineData(table, {i \in S : table[i].MACHINE_ID = m}, m) :
                     m \in {table[i].MACHINE_ID : i \in S}}]
        ELSE [view |-> "machine_reports", status |-> 200, key |-> key,
              from |-> from, to |-> to,
              reports |-> {ProcessMachineData(table, S, key.n)}]

(***************************************************************************)
(* get_consolidated_logs                                                   *)
(***************************************************************************)
\* Lines 2088-2097: round(Sum('STITCH_COUNT') / Sum('NEEDLE_RUNTIME') or 0, 2)
\* over the sewing logs, when there are any; the quotient is computed by the
\* database.  Where the database answers NULL to a division by zero, "or 0"
\* turns it into 0.
ConsolidatedSewingSpeed(table, S) ==
    LET sewing == SewingLogs(table, S)
        needle == NeedleTotal(table, sewing)
    IN  IF sewing = {} \/ needle = 0 THEN 0
        ELSE Hundredths(StitchTotal(table, sewing), needle)

\* The response of a view whose query the database refused.
ServerError(view) == [view |-> view, status |-> 500]

\* Lines 1953-2114.  machines, lines: the ids asked for ({} = no filter);
\* names: operator names or card numbers ({} = no filter).
ConsolidatedLogs(table, from, to, machines, lines, names) ==
    LET ids == {o.rfid_card_no : o \in {o \in Operators :
                    o.operator_name \in names \/ o.rfid_card_no \in names}}
        S == ShiftLogs(table,
                {i \in Rows(table) :
                    /\ InDates(table[i], from, to)
                    /\ (machines # {} => table[i].MACHINE_ID \in machines)
                    /\ (lines # {} => table[i].LINE_NUMB \in lines)
                    /\ (names # {} => table[i].OPERATOR_ID \in ids)})
        sewing == RawModeSeconds(table, S, 1)
        idle == RawModeSeconds(table, S, 2)
        meeting == RawModeSeconds(table, S, 3)
        nofeed == RawModeSeconds(table, S, 4)
        maint == RawModeSeconds(table, S, 5)
        total == Total([i \in S |-> RawDuration(table[i])], S)
    IN  [view |-> "get_consolidated_logs", status |-> 200,
         total_logs |-> Cardinality(S),
         sewing_hours |-> sewing, idle_hours |-> idle,
         meeting_hours |-> meeting, no_feeding_hours |-> nofeed,
         maintenance_hours |-> maint, total_hours |-> total,
         total_stitch_count |-> StitchTotal(table, S),
         total_needle_runtime |-> NeedleTotal(table, S),
         sewing_speed |-> ConsolidatedSewingSpeed(table, S),
         productive_percent |-> IF total > 0 THEN Percent(sewing, total) ELSE 0,
         npt_percent |-> IF total > 0
                         THEN Percent(idle + meeting + nofeed + maint, total)
                         ELSE 0,
         logs |-> S]

\* The responses get_consolidated_logs can give.  The quotient of line 2093
\* is sent to the database without a guard: when the sewing logs' NEEDLE_RUNTIME
\* sums to 0 the database either answers NULL (SQLite, MySQL) or raises
\* "division by zero" (PostgreSQL), and the view has no handler for that.
\* The project's settings are not part of the sources, so both are possible.
ConsolidatedOutcomes(table, from, to, machines, lines, names) ==
    LET answer == ConsolidatedLogs(table, from, to, machines, lines, names)
        sewing == SewingLogs(table, answer.logs)
    IN  IF sewing # {} /\ NeedleTotal(table, sewing) = 0
        THEN {answer, ServerError("get_consolidated_logs")}
        ELSE {answer}

NoReport == [view |-> "none", status |-> 0]

(***************************************************************************)
(* The report views as steps.  Each reads the table and returns; the       *)
(* arguments are the ones a dashboard sends.  The dashboard sends one      *)
(* request at a time: report holds the response until it has been read.    *)
(***************************************************************************)
ReportNames == {"All", "Asha", "Nobody"}

\* from_date / to_date of the query string; 0 = not given.
DateFilters == {[from |-> 0, to |-> 0], [from |-> Today, to |-> 0]}

\* datetime.now().time() as seconds of the day: 09:00 and 20:00.
NowTimes == {32400, 72000}

All == [k |-> "all", n |-> 0]

GroupKeys == {All, Num(1), Num(7), Text}

\* GET operator_reports_by_name for one of the names, with one of the date
\* filters, at one of the clock readings.
ByNameRequest(names, filters, nows) ==
    /\ report = NoReport
    /\ \E name \in names, f \in filters, now \in nows :
          report' = OperatorReportByName(store, name, f.from, f.to, Today, now)
    /\ UNCHANGED <<store, gateVars>>

operator_reports_by_name == ByNameRequest(ReportNames, DateFilters, NowTimes)

operator_reports_all ==
    /\ report = NoReport
    /\ \E f \in DateFilters : report' = OperatorReportsAll(store, f.from, f.to)
    /\ UNCHANGED <<store, gateVars>>

line_reports ==
    /\ report = NoReport
    /\ \E key \in GroupKeys, f \in DateFilters :
          report' = LineReports(store, key, f.from, f.to)
    /\ UNCHANGED <<store, gateVars>>

machine_reports ==
    /\ report = NoReport
    /\ \E key \in GroupKeys, f \in DateFilters :
          report' = MachineReports(store, key, f.from, f.to)
    /\ UNCHANGED <<store, gateVars>>

get_consolidated_logs ==
    /\ report = NoReport
    /\ \E f \in DateFilters, ms \in {{}, {1}}, names \in {{}, {"Asha"}, {"B"}} :
          report' \in ConsolidatedOutcomes(store, f.from, f.to, ms, {}, names)
    /\ UNCHANGED <<store, gateVars>>

Init ==
    /\ store = <<>>
    /\ pc = [p \in Workers |-> "idle"]
    /\ req = [p \in Workers |-> BasePayload]
    /\ vd = [p \in Workers |-> BlankLog]
    /\ resp = [p \in Workers |-> NoResponse]
    /\ created = [p \in Workers |-> 0]
    /\ calls = 0
    /\ startLen = [p \in Workers |-> 0]
    /\ chkLen = [p \in Workers |-> 0]
    /\ incoming = <<>>
    /\ overlap = FALSE
    /\ report = NoReport

(***************************************************************************)
(* Spec: the ingestion gate alone, two workers serving devices.            *)
(***************************************************************************)
GateRequests ==
    ValidPayloads \cup {[BasePayload EXCEPT !.MODE = Num(9)],
                        [BasePayload EXCEPT !.END_TIME = <<>>]}

Next ==
    \E p \in Workers :
        \/ Receive(p, GateRequests, MaxCalls)
        \/ TxCheck(p)
        \/ StrCheck(p)
        \/ Create(p)

Spec == Init /\ [][Next]_vars

(***************************************************************************)
(* SpecReports: devices log shift intervals while dashboards read reports. *)
(***************************************************************************)
MaxLogs == 2

WholeShift == [BasePayload EXCEPT !.START_TIME = <<8, 25, 0>>,
                                  !.END_TIME = <<19, 35, 0>>,
                                  !.DATE = Num(Yesterday)]

ShiftPayloads ==
    {WholeShift,
     [WholeShift EXCEPT !.DATE = Num(Today)],
     [BasePayload EXCEPT !.DATE = Num(Yesterday)],
     [BasePayload EXCEPT !.DATE = Num(Yesterday), !.MODE = Num(4)],
     [BasePayload EXCEPT !.DATE = Num(Yesterday), !.START_TIME = <<10, 30>>,
                         !.END_TIME = <<10, 40>>],
     [BasePayload EXCEPT !.DATE = Num(Yesterday), !.START_TIME = <<8, 0>>],
     [BasePayload EXCEPT !.DATE = Num(Yesterday), !.Str_LOGID = 1005,
                         !.Tx_LOGID = 1007]}

\* The dashboard has read the response.
Deliver ==
    /\ report # NoReport
    /\ report' = NoReport
    /\ UNCHANGED <<store, gateVars>>

NextReports ==
    \/ Deliver
    \/ \E p \in Workers :
          \/ Receive(p, ShiftPayloads, MaxLogs)
          \/ TxCheck(p)
          \/ StrCheck(p)
          \/ Create(p)
    \/ operator_reports_by_name
    \/ operator_reports_all
    \/ line_reports
    \/ machine_reports
    \/ get_consolidated_logs

SpecReports == Init /\ [][NextReports]_vars

(***************************************************************************)
(* SpecIntake: the gate fed with well-formed and malformed requests.       *)
(***************************************************************************)
MaxIntake == 2

NextIntake ==
    \E p \in Workers :
        \/ Receive(p, GatePayloads, MaxIntake)
        \/ TxCheck(p)
        \/ StrCheck(p)
        \/ Create(p)

SpecIntake == Init /\ [][NextIntake]_vars

(***************************************************************************)
(* SpecShift: one device logs intervals at the edges of the shift window   *)
(* and of the breaks, on past, present and future days, while a dashboard  *)
(* reads the reports at clock readings around the break ends.              *)
(***************************************************************************)
MaxShiftLogs == 2

Tomorrow == Today + 1

\* An interval of the base payload's machine, line and operator.
Interval(day, start, end, mode) ==
    [BasePayload EXCEPT !.DATE = Num(day), !.START_TIME = start,
                        !.END_TIME = end, !.MODE = Num(mode)]

ShiftEdgePayloads ==
    {Interval(Yesterday, <<9, 0, 0>>, <<10, 0, 0>>, 1),
     Interval(Yesterday, <<8, 0, 0>>, <<10, 0, 0>>, 1),
     Interval(Yesterday, <<7, 0, 0>>, <<8, 25, 0>>, 1),
     Interval(Yesterday, <<19, 35, 0>>, <<20, 0, 0>>, 4),
     Interval(Yesterday, <<10, 30, 0>>, <<10, 40, 0>>, 1),
     Interval(Yesterday, <<10, 0, 0>>, <<10, 35, 0>>, 3),
     Interval(Yesterday, <<10, 0, 0>>, <<9, 0, 0>>, 1),
     Interval(Today, <<9, 0, 0>>, <<10, 0, 0>>, 1),
     Interval(Tomorrow, <<9, 0, 0>>, <<10, 0, 0>>, 1),
     [Interval(Yesterday, <<9, 0, 0>>, <<10, 0, 0>>, 1)
         EXCEPT !.Str_LOGID = 1005, !.Tx_LOGID = 1007]}

\* Clock readings: before the shift, at and just after each break end,
\* at the shift end and after it.
ShiftClock == {30000, 38400, 38401, 50400, 59400, 59401, 70500, 72000}

NextShift ==
    \/ Deliver
    \/ Receive("w1", ShiftEdgePayloads, MaxShiftLogs)
    \/ TxCheck("w1")
    \/ StrCheck("w1")
    \/ Create("w1")
    \/ ByNameRequest({"All", "Asha"}, DateFilters, ShiftClock)
    \/ line_reports
    \/ machine_reports
    \/ get_consolidated_logs

SpecShift == Init /\ [][NextShift]_vars

(***************************************************************************)
(* Mode descriptions.  The listing views attach a description to the MODE  *)
(* of each record they return.                                             *)
(***************************************************************************)
\* views.MODES, the dictionary the descriptions are taken from.
ModeNames ==
    [m \in MODES |->
        CASE m = 1 -> "Sewing"
          [] m = 2 -> "Idle"
          [] m = 3 -> "Rework"
          [] m = 4 -> "Needle Break"
          [] m = 5 -> "Maintenance"]

\* The ModeMessage table (owned by the admin surface, never written here).
ModeMessages == {[mode |-> 7, message |-> "Trial"]}

\* ModeMessage.objects.filter(mode=...).first()
HasModeMessage(mode) == \E mm \in ModeMessages : mm.mode = mode

ModeMessageOf(mode) == (CHOOSE mm \in ModeMessages : mm.mode = mode).message

\* f"Mode {obj.MODE}"
ModeFallback(mode) == "Mode " \o ToString(mode)

\* MachineLogSerializer.get_mode_description
MachineLogModeDescription(mode) ==
    IF HasModeMessage(mode) THEN ModeMessageOf(mode)
    ELSE IF mode \in MODES THEN ModeNames[mode]
    ELSE "N/A"

\* UserMachineLogSerializer.get_mode_description (MODE is never None in the
\* rows of the model).
UserMachineLogModeDescription(mode) ==
    IF HasModeMessage(mode) /\ ModeMessageOf(mode) # "" THEN ModeMessageOf(mode)
    ELSE IF mode \in MODES THEN ModeNames[mode]
    ELSE ModeFallback(mode)

\* The mode_description filter_logs computes itself.
FilterLogsModeDescription(mode) ==
    IF mode \in MODES THEN ModeNames[mode] ELSE "Unknown mode"

\* Rows saved through the admin site (MachineLogAdmin), which applies none
\* of the gate's checks: any MODE can be stored.
AdminModes == {1, 7, 9}

AdminRows ==
    {[StoredData(ValidatedData(BasePayload))
         EXCEPT !.MODE = m, !.DATE = d, !.LINE_NUMB = l] :
        m \in AdminModes, d \in {Yesterday, Today}, l \in {1, 2}}

\* The UserMachineLog table that get_user_machine_logs lists (written by
\* log_user_machine_data and UserMachineLogAdmin, not by the steps here).
UserMachineLogs ==
    <<[StoredData(ValidatedData(BasePayload)) EXCEPT !.MODE = 1],
      [StoredData(ValidatedData(BasePayload)) EXCEPT !.MODE = 7, !.DATE = Today],
      [StoredData(ValidatedData(BasePayload)) EXCEPT !.MODE = 9, !.DATE = Today]>>

\* One listed row with the description attached to it.
Entry(row, description) ==
    [MODE |-> row.MODE, DATE |-> row.DATE, LINE_NUMB |-> row.LINE_NUMB,
     mode_description |-> description]

RECURSIVE Ascending(_)
\* The elements of a set of row numbers in ascending order.
Ascending(S) ==
    IF S = {} THEN <<>>
    ELSE LET x == CHOOSE y \in S : \A z \in S : y <= z
         IN  <<x>> \o Ascending(S \ {x})

\* A sequence in reverse order (order_by('-created_at')).
Reversed(q) == [i \in 1..Len(q) |-> q[Len(q) + 1 - i]]

MachineLogsListing(table, from, to) ==
    [view |-> "get_machine_logs", status |-> 200, from |-> from, to |-> to,
     logs |-> LET q == Reversed(Ascending({i \in Rows(table) :
                                              InDates(table[i], from, to)}))
              IN  [i \in 1..Len(q) |->
                      Entry(table[q[i]],
                            MachineLogModeDescription(table[q[i]].MODE))]]

FilterLogsListing(table, key, from, to) ==
    [view |-> "filter_logs", status |-> 200, key |-> key,
     from |-> from, to |-> to,
     logs |-> LET q == Ascending({i \in Rows(table) :
                                     /\ (key.k = "int" => table[i].LINE_NUMB = key.n)
                                     /\ InDates(table[i], from, to)})
              IN  [i \in 1..Len(q) |->
                      Entry(table[q[i]],
                            FilterLogsModeDescription(table[q[i]].MODE))]]

UserMachineLogsListing(table, from, to) ==
    [view |-> "get_user_machine_logs", status |-> 200, from |-> from, to |-> to,
     logs |-> LET q == Reversed(Ascending({i \in Rows(table) :
                                              InDates(table[i], from, to)}))
              IN  [i \in 1..Len(q) |->
                      Entry(table[q[i]],
                            UserMachineLogModeDescription(table[q[i]].MODE))]]

MaxAdminRows == 2

\* MachineLogAdmin: a row is added through the admin site.
MachineLogAdmin ==
    /\ Len(store) < MaxAdminRows
    /\ \E row \in AdminRows :
          /\ store' = Insert(store, row)
          /\ incoming' = Append(incoming, row.Str_LOGID)
    /\ UNCHANGED <<pc, req, vd, resp, created, calls, startLen, chkLen,
                   overlap, report>>

get_machine_logs ==
    /\ report = NoReport
    /\ \E f \in DateFilters : report' = MachineLogsListing(store, f.from, f.to)
    /\ UNCHANGED <<store, gateVars>>

filter_logs ==
    /\ report = NoReport
    /\ \E key \in {All, Num(1)}, f \in DateFilters :
          report' = FilterLogsListing(store, key, f.from, f.to)
    /\ UNCHANGED <<store, gateVars>>

get_user_machine_logs ==
    /\ report = NoReport
    /\ \E f \in DateFilters :
          report' = UserMachineLogsListing(UserMachineLogs, f.from, f.to)
    /\ UNCHANGED <<store, gateVars>>

NextLabels ==
    \/ Deliver
    \/ MachineLogAdmin
    \/ get_machine_logs
    \/ filter_logs
    \/ get_user_machine_logs

SpecLabels == Init /\ [][NextLabels]_vars

(***************************************************************************)
(* operator_reports_by_name, query by query.  logs is a lazy queryset: the *)
(* view sends a separate query to the database each time it evaluates it   *)
(* (the dates at line 496, the mode hours at 545, the stitch count at 581, *)
(* the table at 634), with no transaction around them, so log_machine_data *)
(* can insert between two of them.  While the view runs, report holds what *)
(* it has computed so far, with status 0 and the query it is about to      *)
(* send in stage.                                                          *)
(***************************************************************************)
\* Lines 401-411: the operator lookup; then the view goes on to its queries.
ByNameBegin(names, filters, nows) ==
    /\ report = NoReport
    /\ \E name \in names, f \in filters, now \in nows :
          report' =
              IF name # "All" /\ ~\E o \in Operators : o.operator_name = name
              THEN OperatorReportByName(store, name, f.from, f.to, Today, now)
              ELSE [view |-> "operator_reports_by_name", status |-> 0,
                    stage |-> "dates", name |-> name, from |-> f.from,
                    to |-> f.to, today |-> Today, now |-> now,
                    totalHours |-> 0, totalProductionHours |-> 0,
                    totalNonProductionHours |-> 0, totalIdleHours |-> 0,
                    productionPercentage |-> 0, nptPercentage |-> 0,
                    averageSewingSpeed |-> 0, totalStitchCount |-> 0,
                    totalNeedleRuntime |-> 0, needleRuntimePercentage |-> 0]
    /\ UNCHANGED <<store, gateVars>>

\* The view is running and about to send the query of the given stage.
AtStage(stage) ==
    /\ report.view = "operator_reports_by_name"
    /\ report.status = 0
    /\ report.stage = stage

\* Lines 486-531: the distinct dates and the available time.
ByNameDates ==
    /\ AtStage("dates")
    /\ LET S == ByNameLogs(store, report.name, report.from, report.to)
           days == DatesOf(store, S)
       IN  report' =
              [report EXCEPT
                  !.stage = "modes",
                  !.totalHours =
                      Total([d \in days |->
                                DayAvailable(d, report.today, report.now)], days)]
    /\ UNCHANGED <<store, gateVars>>

\* Lines 533-573: the hours per mode, the idle hours and the percentages.
ByNameModeHours ==
    /\ AtStage("modes")
    /\ LET S == ByNameLogs(store, report.name, report.from, report.to)
           avail == report.totalHours
           production == ModeSeconds(store, S, 1, SHIFT_START, SHIFT_END)
           meeting == ModeSeconds(store, S, 4, SHIFT_START, SHIFT_END)
           nofeed == ModeSeconds(store, S, 3, SHIFT_START, SHIFT_END)
           maint == ModeSeconds(store, S, 5, SHIFT_START, SHIFT_END)
           idle == Max(avail - (production + nofeed + meeting + maint), 0)
           nonprod == nofeed + meeting + maint + idle
       IN  report' =
              [report EXCEPT
                  !.stage = "stitch",
                  !.totalProductionHours = production,
                  !.totalNonProductionHours = nonprod,
                  !.totalIdleHours = idle,
                  !.productionPercentage = ProductivePercent(production, avail),
                  !.nptPercentage =
                      IF avail > 0 THEN Percent(nonprod, avail) ELSE 0]
    /\ UNCHANGED <<store, gateVars>>

\* Lines 575-597: the average sewing speed, the total stitch count and the
\* needle runtime figures.
ByNameStitch ==
    /\ AtStage("stitch")
    /\ LET S == ByNameLogs(store, report.name, report.from, report.to)
           needle == NeedleTotal(store, SewingLogs(store, S))
       IN  report' =
              [report EXCEPT
                  !.stage = "table",
                  !.averageSewingSpeed = AverageSewingSpeed(store, S),
                  !.totalStitchCount = StitchTotal(store, S),
                  !.totalNeedleRuntime =
                      AverageNeedleRuntime(needle,
                                           Cardinality(SewingLogs(store, S))),
                  !.needleRuntimePercentage =
                      NeedleRuntimePercentage(needle,
                                              report.totalProductionHours)]
    /\ UNCHANGED <<store, gateVars>>

\* Lines 598-726: the table rows, and the response.
ByNameTable ==
    /\ AtStage("table")
    /\ LET S == ByNameLogs(store, report.name, report.from, report.to)
       IN  report' =
              [view |-> "operator_reports_by_name", status |-> 200,
               name |-> report.name, from |-> report.from, to |-> report.to,
               today |-> report.today, now |-> report.now,
               totalHours |-> report.totalHours,
               totalProductionHours |-> report.totalProductionHours,
               totalNonProductionHours |-> report.totalNonProductionHours,
               totalIdleHours |-> report.totalIdleHours,
               productionPercentage |-> report.productionPercentage,
               nptPercentage |-> report.nptPercentage,
               averageSewingSpeed |-> report.averageSewingSpeed,
               totalStitchCount |-> report.totalStitchCount,
               totalNeedleRuntime |-> report.totalNeedleRuntime,
               needleRuntimePercentage |-> report.needleRuntimePercentage,
               tableData |->
                  {ByNameRow(store, S, store[i].DATE, store[i].OPERATOR_ID,
                             report.today, report.now) : i \in S}]
    /\ UNCHANGED <<store, gateVars>>

(***************************************************************************)
(* SpecFetch: devices log while a dashboard's operator report is running.  *)
(***************************************************************************)
MaxFetchLogs == 2

FetchPayloads ==
    {Interval(Yesterday, <<9, 0, 0>>, <<10, 0, 0>>, 1),
     Interval(Yesterday, <<11, 0, 0>>, <<11, 30, 0>>, 4),
     Interval(Today, <<9, 0, 0>>, <<9, 20, 0>>, 1),
     [Interval(Yesterday, <<9, 0, 0>>, <<10, 0, 0>>, 1)
         EXCEPT !.Str_LOGID = 1005, !.Tx_LOGID = 1007]}

\* The dashboard reads the response once the view has answered.
ReadAnswer == report.status # 0 /\ Deliver

NextFetch ==
    \/ ReadAnswer
    \/ \E p \in Workers :
          \/ Receive(p, FetchPayloads, MaxFetchLogs)
          \/ TxCheck(p)
          \/ StrCheck(p)
          \/ Create(p)
    \/ ByNameBegin({"All", "Nobody"}, DateFilters, {72000})
    \/ ByNameDates
    \/ ByNameModeHours
    \/ ByNameStitch
    \/ ByNameTable

SpecFetch == Init /\ [][NextFetch]_vars

(***************************************************************************)
(* SpecMetrics: one device logs intervals of every mode, on two lines,     *)
(* with and without a sewing speed and a needle runtime, while a dashboard *)
(* reads the reports.                                                      *)
(***************************************************************************)
MaxMetricLogs == 2

\* An interval of the given line with its speed (RESERVE), stitch count and
\* needle runtime.
Measured(line, start, end, mode, reserve, stitches, needle) ==
    [Interval(Yesterday, start, end, mode)
        EXCEPT !.LINE_NUMB = line, !.RESERVE = reserve,
               !.STITCH_COUNT = stitches, !.NEEDLE_RUNTIME = needle]

MetricPayloads ==
    {Measured(1, <<9, 0, 0>>, <<10, 0, 0>>, 1, Num(3000), 10, 60),
     Measured(1, <<11, 0, 0>>, <<11, 30, 0>>, 4, Num(1000), 0, 30),
     Measured(2, <<12, 0, 0>>, <<13, 0, 0>>, 3, None, 0, 0),
     Measured(2, <<14, 30, 0>>, <<15, 0, 0>>, 1, Num(2000), 5, 0),
     Measured(1, <<8, 25, 0>>, <<19, 35, 0>>, 2, None, 0, 0),
     [Measured(1, <<9, 0, 0>>, <<10, 0, 0>>, 1, Num(3000), 10, 60)
         EXCEPT !.Str_LOGID = 1005, !.Tx_LOGID = 1007]}

NextMetrics ==
    \/ Deliver
    \/ Receive("w1", MetricPayloads, MaxMetricLogs)
    \/ TxCheck("w1")
    \/ StrCheck("w1")
    \/ Create("w1")
    \/ ByNameRequest({"All", "Asha"}, DateFilters, {72000})
    \/ line_reports
    \/ machine_reports
    \/ get_consolidated_logs

SpecMetrics == Init /\ [][NextMetrics]_vars

(***************************************************************************)
(* SpecBreaks: one device logs intervals around the breaks, one of them    *)
(* with its END_TIME before its START_TIME (the serializer validates each  *)
(* time on its own and never compares the two), while a dashboard reads    *)
(* the line and machine reports.                                           *)
(***************************************************************************)
MaxBreakLogs == 2

BreakPayloads ==
    {Interval(Yesterday, <<9, 0, 0>>, <<10, 0, 0>>, 1),
     Interval(Yesterday, <<10, 30, 0>>, <<10, 40, 0>>, 1),
     Interval(Yesterday, <<13, 30, 0>>, <<13, 50, 0>>, 4),
     Interval(Yesterday, <<10, 0, 0>>, <<10, 35, 0>>, 3),
     Interval(Yesterday, <<15, 0, 0>>, <<10, 0, 0>>, 1),
     [Interval(Yesterday, <<9, 0, 0>>, <<10, 0, 0>>, 1)
         EXCEPT !.Str_LOGID = 1005, !.Tx_LOGID = 1007]}

NextBreaks ==
    \/ Deliver
    \/ Receive("w1", BreakPayloads, MaxBreakLogs)
    \/ TxCheck("w1")
    \/ StrCheck("w1")
    \/ Create("w1")
    \/ line_reports
    \/ machine_reports

SpecBreaks == Init /\ [][NextBreaks]_vars

(***************************************************************************)
(* SpecDedup: devices send an event and retries of it that carry another   *)
(* MODE, OPERATOR_ID or LINE_NUMB.                                         *)
(***************************************************************************)
MaxDedupCalls == 3

DedupPayloads ==
    {BasePayload,
     [BasePayload EXCEPT !.Str_LOGID = 1005],
     [BasePayload EXCEPT !.Str_LOGID = 1005, !.MODE = Num(2)],
     [BasePayload EXCEPT !.Str_LOGID = 1005, !.OPERATOR_ID = "B"],
     [BasePayload EXCEPT !.Tx_LOGID = 1007, !.LINE_NUMB = 2],
     [BasePayload EXCEPT !.Str_LOGID = 1005, !.MODE = Num(2),
                         !.START_TIME = <<9, 30>>]}

NextDedup ==
    \E p \in Workers :
        \/ Receive(p, DedupPayloads, MaxDedupCalls)
        \/ TxCheck(p)
        \/ StrCheck(p)
        \/ Create(p)

SpecDedup == Init /\ [][NextDedup]_vars

(***************************************************************************)
(* Properties of the ingestion gate.                                       *)
(***************************************************************************)
Done(p) == pc[p] = "done"

\* The call of p passed validation (lines 48-82).
Validated(p) == Rejection(req[p]) = NoResponse

Success(r) ==
    r.status = 200 /\ r.code = 200 /\ r.message = "Log saved successfully"

\* Row i was in the table when the call of p arrived, it is the same event
\* as the request of p, and the request's Str_LOGID is the row's plus 1000.
ResubmissionOf(p, i) ==
    /\ i \in 1..startLen[p]
    /\ store[i].MACHINE_ID = vd[p].MACHINE_ID
    /\ store[i].DATE = vd[p].DATE
    /\ store[i].START_TIME = vd[p].START_TIME
    /\ store[i].END_TIME = vd[p].END_TIME
    /\ req[p].Str_LOGID = store[i].Str_LOGID + 1000

SameDedupTuple(i, j) ==
    /\ store[i].Str_LOGID = store[j].Str_LOGID
    /\ store[i].MACHINE_ID = store[j].MACHINE_ID
    /\ store[i].DATE = store[j].DATE
    /\ store[i].START_TIME = store[j].START_TIME
    /\ store[i].END_TIME = store[j].END_TIME

\* C2: two rows persisted from the same marked retry (same adjusted
\* Str_LOGID, machine, date, start, end) exist only after two calls have
\* run concurrently; the witness is the interleaving itself.
C2_MarkedDuplicateOnlyByRace ==
    (\E i, j \in Rows(store) :
        /\ i < j
        /\ incoming[i] > 1000
        /\ incoming[j] > 1000
        /\ SameDedupTuple(i, j))
      => overlap

\* Both workers carried the same marked retry, both lookups ran before
\* either insert, both passed, and both rows are in the table.
C2_Witness ==
    \E p, q \in Workers :
        /\ p # q
        /\ Done(p) /\ Done(q)
        /\ req[p] = req[q]
        /\ req[p].Str_LOGID > 1000
        /\ created[p] # 0 /\ created[q] # 0
        /\ chkLen[p] < created[p] /\ chkLen[p] < created[q]
        /\ chkLen[q] < created[p] /\ chkLen[q] < created[q]
        /\ SameDedupTuple(created[p], created[q])
        /\ store[created[p]].Str_LOGID = req[p].Str_LOGID - 1000

\* Rows i and j agree on (MACHINE_ID, OPERATOR_ID, DATE, START_TIME,
\* END_TIME, MODE).
SameTuple(i, j) ==
    /\ store[i].MACHINE_ID = store[j].MACHINE_ID
    /\ store[i].OPERATOR_ID = store[j].OPERATOR_ID
    /\ store[i].DATE = store[j].DATE
    /\ store[i].START_TIME = store[j].START_TIME
    /\ store[i].END_TIME = store[j].END_TIME
    /\ store[i].MODE = store[j].MODE

\* C3, as stated: after strictly sequential calls no two stored rows share
\* (MACHINE_ID, OPERATOR_ID, DATE, START_TIME, END_TIME, MODE).
C3_TupleUnique ==
    ~overlap => \A i, j \in Rows(store) : (i < j) => ~SameTuple(i, j)

\* C3, amended: after strictly sequential calls, a row persisted from a
\* marked submission (Str_LOGID > 1000) shares the tuple with no earlier
\* row that has the same stored Str_LOGID.
C3_MarkedTupleUnique ==
    ~overlap =>
        \A i, j \in Rows(store) :
            (i < j /\ incoming[j] > 1000)
                => ~(SameTuple(i, j) /\ store[i].Str_LOGID = store[j].Str_LOGID)

\* Sequential calls left a row from a marked submission beside an earlier
\* row with the same tuple and another Str_LOGID.
C3_Witness ==
    /\ ~overlap
    /\ \E i, j \in Rows(store) :
          /\ i < j
          /\ incoming[j] > 1000
          /\ SameTuple(i, j)
          /\ store[i].Str_LOGID # store[j].Str_LOGID

\* C4: the table is append-only.  A step that changes it is the save of
\* one call, which appends exactly one row and is that call's only save;
\* no report view changes it.
C4_AppendOnly ==
    [][/\ (store' # store =>
             /\ Len(store') = Len(store) + 1
             /\ SubSeq(store', 1, Len(store)) = store
             /\ \E p \in Workers :
                   /\ pc[p] = "create" /\ pc'[p] = "done"
                   /\ created[p] = 0 /\ created'[p] = Len(store'))
       /\ (report' # report => store' = store)
       /\ \A p \in Workers :
             (created[p] # 0 /\ created'[p] # created[p]) => ~InFlight(p)]_vars

\* Two rows are stored and a report over them has been answered.
C4_Witness ==
    /\ Len(store) = 2
    /\ store[1] # store[2]
    /\ \E p \in Workers : created[p] = 2
    /\ report.view \in {"operator_reports_by_name", "line_reports",
                        "machine_reports", "get_consolidated_logs"}
    /\ report.status = 200

\* A stored match for the Tx_LOGID lookup of p's request.
TxDuplicateOf(p) ==
    /\ req[p].Tx_LOGID > 1000
    /\ \E i \in Rows(store) :
          /\ store[i].Tx_LOGID = req[p].Tx_LOGID - 1000
          /\ store[i].MACHINE_ID = vd[p].MACHINE_ID
          /\ store[i].DATE = vd[p].DATE
          /\ store[i].START_TIME = vd[p].START_TIME
          /\ store[i].END_TIME = vd[p].END_TIME

\* A stored match for the Str_LOGID lookup of p's request.
StrDuplicateOf(p) ==
    /\ req[p].Str_LOGID > 1000
    /\ \E i \in Rows(store) :
          /\ store[i].Str_LOGID = req[p].Str_LOGID - 1000
          /\ store[i].MACHINE_ID = vd[p].MACHINE_ID
          /\ store[i].DATE = vd[p].DATE
          /\ store[i].START_TIME = vd[p].START_TIME
          /\ store[i].END_TIME = vd[p].END_TIME

\* Every row holds the incoming Str_LOGID less 1000 when that was above
\* 1000 and the incoming value itself otherwise.
StoredStrIdRule ==
    \A j \in Rows(store) :
        store[j].Str_LOGID =
            IF incoming[j] > 1000 THEN incoming[j] - 1000 ELSE incoming[j]

\* C5, as stated: the stored Str_LOGID rule, and for an incoming
\* Str_LOGID <= 1000 no duplicate check is made and a row is always written.
C5_UnmarkedAlwaysWritten ==
    /\ StoredStrIdRule
    /\ \A p \in Workers :
          (Validated(p) /\ req[p].Str_LOGID <= 1000)
              => (pc[p] # "str" /\ (Done(p) => created[p] # 0))

\* C5, amended: the stored Str_LOGID rule; for an incoming Str_LOGID <= 1000
\* no Str_LOGID check is made and a row is written unless the Tx_LOGID
\* check (Tx_LOGID > 1000 with a stored match) has answered the request.
C5_StoredStrId ==
    /\ StoredStrIdRule
    /\ \A p \in Workers :
          (Validated(p) /\ req[p].Str_LOGID <= 1000)
              => /\ pc[p] # "str"
                 /\ (Done(p) /\ created[p] = 0) => TxDuplicateOf(p)
                 /\ (Done(p) /\ req[p].Tx_LOGID <= 1000) => created[p] # 0

\* One call saved a marked request under the adjusted id, another saved an
\* unmarked request under the id it came with.
C5_Witness ==
    \E p, q \in Workers :
        /\ Done(p) /\ created[p] # 0 /\ req[p].Str_LOGID > 1000
        /\ store[created[p]].Str_LOGID = req[p].Str_LOGID - 1000
        /\ Done(q) /\ created[q] # 0 /\ req[q].Str_LOGID <= 1000
        /\ store[created[q]].Str_LOGID = req[q].Str_LOGID

C7_DuplicateAnsweredAsSaved ==
    [][\A p \in Workers :
          /\ (pc[p] \in {"tx", "str"} /\ pc'[p] = "done")
                => /\ Success(resp'[p])
                   /\ store' = store
                   /\ created'[p] = 0
                   /\ (TxDuplicateOf(p) \/ StrDuplicateOf(p))
          /\ (pc[p] = "create" /\ pc'[p] = "done")
                => /\ Success(resp'[p])
                   /\ Len(store') = Len(store) + 1
                   /\ created'[p] = Len(store')]_vars

\* One call was answered as a duplicate, another saved its row, and the
\* two responses are equal.
C7_Witness ==
    \E p, q \in Workers :
        /\ Done(p) /\ Validated(p) /\ created[p] = 0
        /\ Done(q) /\ Validated(q) /\ created[q] # 0
        /\ resp[p] = resp[q]
        /\ Success(resp[p])

\* The submissions C8 lists: MODE missing, not an integer or no key of the
\* taxonomy; a field the serializer rejects; MACHINE_ID, DATE, START_TIME
\* or END_TIME missing.
Malformed(d) ==
    \/ d.MODE.k = "none"
    \/ d.MODE.k = "text"
    \/ (d.MODE.k = "int" /\ d.MODE.n \notin {1, 2, 3, 4, 5})
    \/ d.MACHINE_ID.k # "int"
    \/ d.DATE.k # "int"
    \/ d.START_TIME = <<>>
    \/ d.END_TIME = <<>>
    \/ ~TimeOk(d.START_TIME)
    \/ ~TimeOk(d.END_TIME)

\* C8: a malformed submission is answered with status 400, never reaches a
\* lookup or the save, and its call adds no row.
C8_MalformedRejected ==
    \A p \in Workers :
        Malformed(req[p])
            => /\ Done(p)
               /\ resp[p].status = 400
               /\ created[p] = 0

\* Rows are stored, and afterwards one worker turned away an unknown mode
\* and the other a request without END_TIME; the table kept its length.
C8_Witness ==
    \E p, q \in Workers :
        /\ Done(p) /\ req[p].MODE = Num(9) /\ resp[p].status = 400
        /\ Done(q) /\ req[q].END_TIME = <<>> /\ resp[q].status = 400
        /\ Len(store) = startLen[p]

\* The rows persisted for request d: the rows that hold d's saved form and
\* arrived with d's Str_LOGID.
RowsFor(d) ==
    {j \in Rows(store) :
        /\ incoming[j] = d.Str_LOGID
        /\ store[j].Str_LOGID = d.Str_LOGID - 1000
        /\ store[j].Tx_LOGID = d.Tx_LOGID
        /\ store[j].MACHINE_ID = d.MACHINE_ID.n
        /\ store[j].DATE = d.DATE.n
        /\ store[j].START_TIME = ParseTime(d.START_TIME)
        /\ store[j].END_TIME = ParseTime(d.END_TIME)}

\* C9: with strictly sequential calls, a marked request (Str_LOGID > 1000)
\* has at most one row however often it was submitted, and exactly one
\* once a call carrying it has returned, provided no row matched it (by
\* either lookup) when its first call arrived: the first call saves it
\* under the adjusted Str_LOGID, every later call is a no-op.
C9_RepeatsAbsorbed ==
    ~overlap =>
        \A p \in Workers :
            (Done(p) /\ Validated(p) /\ req[p].Str_LOGID > 1000)
                => /\ Cardinality(RowsFor(req[p])) <= 1
                   /\ (created[p] # 0 => RowsFor(req[p]) = {created[p]})
                   /\ (created[p] = 0 => (TxDuplicateOf(p) \/ StrDuplicateOf(p)))
                   /\ (created[p] = 0 /\ ~TxDuplicateOf(p))
                         => \E i \in 1..startLen[p] :
                               /\ store[i].Str_LOGID = req[p].Str_LOGID - 1000
                               /\ store[i].START_TIME = vd[p].START_TIME

\* The same marked request was submitted three times in sequence: the
\* first call saved it, the last was a no-op, one row stands for it.
C9_Witness ==
    /\ ~overlap
    /\ calls = 3
    /\ Len(store) = 1
    /\ incoming[1] > 1000
    /\ \E p, q \in Workers :
          /\ p # q
          /\ Done(p) /\ Done(q)
          /\ req[p] = req[q]
          /\ req[p].Tx_LOGID <= 1000
          /\ created[p] = 0
          /\ RowsFor(req[p]) = {1}

\* C10: the productive percentage of operator_reports_by_name (summary and
\* every table row) and of operator_reports_all lies in [0, 100] and the
\* NPT percentage is never negative.
C10_PercentagesSaturate ==
    /\ (report.view = "operator_reports_by_name" /\ report.status = 200)
          => /\ report.productionPercentage \in 0..10000
             /\ report.nptPercentage >= 0
             /\ \A r \in report.tableData :
                   r.ProductivePercent \in 0..10000 /\ r.NPTPercent >= 0
    /\ (report.view = "operator_reports_all")
          => \A e \in report.entries :
                e.productionPercentage \in 0..10000 /\ e.nptPercentage >= 0

(***************************************************************************)
(* Properties of the shift window, the breaks and the availability.        *)
(***************************************************************************)
\* The step in which operator_reports_by_name answers a request with a
\* report; report' is the answer and store the table it was computed from.
ByNameAnswers ==
    /\ report = NoReport
    /\ report'.view = "operator_reports_by_name"
    /\ report'.status = 200

\* The record is one the request answered by rep asks about: its operator
\* is the named one (any operator for "All") and its date passes the date
\* filter.
Requested(row, rep) ==
    /\ (rep.name # "All" =>
          \E o \in Operators : /\ o.operator_name = rep.name
                               /\ o.rfid_card_no = row.OPERATOR_ID)
    /\ (rep.from # 0 => row.DATE >= rep.from)
    /\ (rep.to # 0 => row.DATE <= rep.to)
    /\ ~(row.OPERATOR_ID = "0" /\ row.MODE = 2)

\* The hours a tableData row reports for a mode (mode 2 has no column).
ModeHoursOf(r, m) ==
    CASE m = 1 -> r.SewingHours
      [] m = 3 -> r.NoFeedingHours
      [] m = 4 -> r.MeetingHours
      [] m = 5 -> r.MaintenanceHours
      [] OTHER -> 0

\* The record runs forward and overlaps the window 30300..70500 only partly.
PartlyInShift(row) ==
    /\ row.START_TIME < row.END_TIME
    /\ row.END_TIME > 30300
    /\ row.START_TIME < 70500
    /\ (row.START_TIME < 30300 \/ row.END_TIME > 70500)

\* clamp(end) - clamp(start) on the window 30300..70500.
ClippedLength(row) ==
    (IF row.END_TIME > 70500 THEN 70500 ELSE row.END_TIME)
        - (IF row.START_TIME < 30300 THEN 30300 ELSE row.START_TIME)

\* C11: in operator_reports_by_name a record that overlaps the shift window
\* only partly is counted with its clipped duration: the table row of its
\* date and operator reports at least clamp(end) - clamp(start) for its
\* mode (5700 s for 08:00:00-10:00:00).
C11_PartialOverlapClipped ==
    [][ByNameAnswers =>
          \A i \in Rows(store) :
              (Requested(store[i], report') /\ PartlyInShift(store[i])
                  /\ store[i].MODE \in {1, 3, 4, 5})
                  => \E r \in report'.tableData :
                        /\ r.Date = store[i].DATE
                        /\ r.OperatorID = store[i].OPERATOR_ID
                        /\ ModeHoursOf(r, store[i].MODE)
                              >= ClippedLength(store[i])]_vars

\* The per-mode hour totals of a line or machine report and of its rows.
GroupHoursNonNegative(g) ==
    /\ g.productiveHours >= 0
    /\ g.noFeedingHours >= 0
    /\ g.meetingHours >= 0
    /\ g.maintenanceHours >= 0
    /\ g.idleHours >= 0
    /\ \A r \in g.tableData :
          /\ r.SewingHours >= 0
          /\ r.NoFeedingHours >= 0
          /\ r.MeetingHours >= 0
          /\ r.MaintenanceHours >= 0
          /\ r.IdleHours >= 0

\* C12: no record, whatever its START_TIME and END_TIME, contributes a
\* negative duration: every per-mode hour total of every report (line,
\* machine, consolidated, operator by name) is >= 0.
C12_DurationNeverNegative ==
    /\ (report.view \in {"line_reports", "machine_reports"}
           /\ report.status = 200)
          => \A g \in report.reports : GroupHoursNonNegative(g)
    /\ (report.view = "get_consolidated_logs" /\ report.status = 200)
          => /\ report.sewing_hours >= 0
             /\ report.idle_hours >= 0
             /\ report.meeting_hours >= 0
             /\ report.no_feeding_hours >= 0
             /\ report.maintenance_hours >= 0
    /\ (report.view = "operator_reports_by_name" /\ report.status = 200)
          => /\ report.totalProductionHours >= 0
             /\ report.totalNonProductionHours >= 0
             /\ report.totalIdleHours >= 0
             /\ \A r \in report.tableData :
                   /\ r.SewingHours >= 0
                   /\ r.MeetingHours >= 0
                   /\ r.NoFeedingHours >= 0
                   /\ r.MaintenanceHours >= 0
                   /\ r.IdleHours >= 0

\* The record lies entirely outside the shift window.
OutsideShift(row) == row.END_TIME <= 30300 \/ row.START_TIME >= 70500

\* The table without the records lying entirely outside the shift window.
WithoutOutside(table) == SelectSeq(table, LAMBDA row : ~OutsideShift(row))

\* C13: in operator_reports_by_name the records lying entirely outside the
\* shift window contribute nothing: the report (hour totals, stitch count,
\* working dates and their availability, table rows) is the one the table
\* without those records gives.
C13_OutsideShiftIgnored ==
    [][ByNameAnswers =>
          report' = OperatorReportByName(WithoutOutside(store), report'.name,
                                         report'.from, report'.to,
                                         report'.today, report'.now)]_vars

\* A record outside the window was stored first, one inside it second, for
\* the same date and operator; the report has their row, with the stitches
\* of the second record only.
C13_Witness ==
    /\ Len(store) = 2
    /\ OutsideShift(store[1])
    /\ store[1].DATE = store[2].DATE
    /\ store[1].OPERATOR_ID = store[2].OPERATOR_ID
    /\ store[1].STITCH_COUNT > 0
    /\ report.view = "operator_reports_by_name"
    /\ report.status = 200
    /\ report.totalStitchCount = store[2].STITCH_COUNT
    /\ \E r \in report.tableData :
          /\ r.Date = store[2].DATE
          /\ r.OperatorID = store[2].OPERATOR_ID
          /\ r.StitchCount = store[2].STITCH_COUNT

\* The three break windows, as <<start, end>> in seconds of the day.
BreakWindows == {<<37800, 38400>>, <<48000, 50400>>, <<58800, 59400>>}

\* The record runs forward and lies entirely within one break window,
\* bounds included.
WhollyInBreak(row) ==
    /\ row.START_TIME <= row.END_TIME
    /\ \E b \in BreakWindows : row.START_TIME >= b[1] /\ row.END_TIME <= b[2]

\* The table without the records lying entirely within a break.
WithoutBreakRecords(table) ==
    SelectSeq(table, LAMBDA row : ~WhollyInBreak(row))

\* The records of mode m, date day and operator op that the answer rep of
\* operator_reports_by_name counts: requested, running forward inside the
\* shift window and not lying entirely within a break.
CountedByName(rep, day, op, m) ==
    {i \in Rows(store) :
        /\ Requested(store[i], rep)
        /\ store[i].DATE = day
        /\ store[i].OPERATOR_ID = op
        /\ store[i].MODE = m
        /\ store[i].START_TIME >= 30300
        /\ store[i].END_TIME <= 70500
        /\ store[i].START_TIME < store[i].END_TIME
        /\ ~WhollyInBreak(store[i])}

\* The sum of the full lengths END_TIME - START_TIME of the records S.
FullLengths(S) == Total([i \in S |-> store[i].END_TIME - store[i].START_TIME], S)

\* The step in which line_reports answers a request with a report.
LineAnswers ==
    /\ report = NoReport
    /\ report'.view = "line_reports"
    /\ report'.status = 200

\* The records of mode m and date day that a line report counts for line l.
CountedByLine(rep, l, day, m) ==
    {i \in Rows(store) :
        /\ \E o \in Operators : o.rfid_card_no = store[i].OPERATOR_ID
        /\ store[i].LINE_NUMB = l
        /\ (rep.from # 0 => store[i].DATE >= rep.from)
        /\ (rep.to # 0 => store[i].DATE <= rep.to)
        /\ store[i].DATE = day
        /\ store[i].MODE = m
        /\ store[i].START_TIME >= 30300
        /\ store[i].END_TIME <= 70500
        /\ ~\E b \in BreakWindows :
               store[i].START_TIME >= b[1] /\ store[i].END_TIME <= b[2]}

\* C14: break handling is all-or-nothing at the interval level, in
\* operator_reports_by_name and in line_reports.  The records lying entirely
\* within one break window contribute nothing (the report is the one of the
\* table without them), and every other counted record, also one that
\* overlaps a break partly, enters the hours of its mode with its full
\* length END_TIME - START_TIME.
C14_BreakAllOrNothing ==
    [][/\ ByNameAnswers =>
             /\ report' = OperatorReportByName(WithoutBreakRecords(store),
                              report'.name, report'.from, report'.to,
                              report'.today, report'.now)
             /\ \A r \in report'.tableData : \A m \in {1, 3, 4, 5} :
                   ModeHoursOf(r, m) =
                       FullLengths(CountedByName(report', r.Date, r.OperatorID, m))
             /\ \A i \in Rows(store) : \A m \in {1, 3, 4, 5} :
                   i \in CountedByName(report', store[i].DATE,
                                       store[i].OPERATOR_ID, m)
                       => \E r \in report'.tableData :
                             /\ r.Date = store[i].DATE
                             /\ r.OperatorID = store[i].OPERATOR_ID
       /\ LineAnswers =>
             /\ report' = LineReports(WithoutBreakRecords(store), report'.key,
                                      report'.from, report'.to)
             /\ \A g \in report'.reports : \A r \in g.tableData :
                   /\ r.SewingHours
                         = FullLengths(CountedByLine(report', g.lineNumber, r.Date, 1))
                   /\ r.IdleHours
                         = FullLengths(CountedByLine(report', g.lineNumber, r.Date, 2))
                   /\ r.NoFeedingHours
                         = FullLengths(CountedByLine(report', g.lineNumber, r.Date, 3))
                   /\ r.MeetingHours
                         = FullLengths(CountedByLine(report', g.lineNumber, r.Date, 4))
                   /\ r.MaintenanceHours
                         = FullLengths(CountedByLine(report', g.lineNumber, r.Date, 5))]_vars

\* The record overlaps a break window without lying within it.
PartlyInBreak(row) ==
    /\ ~WhollyInBreak(row)
    /\ \E b \in BreakWindows : row.START_TIME < b[2] /\ row.END_TIME > b[1]

\* A record filling a break exactly was stored first and one running into
\* that break second, for the same date and operator; the report counts the
\* second at its full length and nothing else.
C14_Witness ==
    /\ Len(store) = 2
    /\ WhollyInBreak(store[1])
    /\ store[1].START_TIME < store[1].END_TIME
    /\ PartlyInBreak(store[2])
    /\ store[2].START_TIME >= 30300
    /\ store[1].DATE = store[2].DATE
    /\ store[1].OPERATOR_ID = store[2].OPERATOR_ID
    /\ report.view = "operator_reports_by_name"
    /\ report.status = 200
    /\ \E r \in report.tableData :
          /\ r.Date = store[2].DATE
          /\ ModeHoursOf(r, store[2].MODE)
                = store[2].END_TIME - store[2].START_TIME
          /\ ModeHoursOf(r, store[1].MODE) = 0

\* The dates of the table rows of an operator report.
ReportDates(rep) == {r.Date : r \in rep.tableData}

\* C15: the available time of a past day is the constant
\* (70500 - 30300) - (600 + 2400 + 600) = 36600 s, in every table row of
\* that day and, per past date, in the summary's totalHours, whatever
\* records the day has.
C15_PastDayConstant ==
    (report.view = "operator_reports_by_name" /\ report.status = 200)
        => /\ \A r \in report.tableData :
                 r.Date < report.today
                     => r.TotalHours = (70500 - 30300) - (600 + 2400 + 600)
           /\ (\A d \in ReportDates(report) : d < report.today)
                 => report.totalHours = 36600 * Cardinality(ReportDates(report))

\* Two records of different length were stored for one past day; the
\* report shows that day with 36600 s in the row and in the summary.
C15_Witness ==
    /\ Len(store) = 2
    /\ store[1].DATE = store[2].DATE
    /\ store[1].DATE < Today
    /\ store[1].END_TIME - store[1].START_TIME
          # store[2].END_TIME - store[2].START_TIME
    /\ report.view = "operator_reports_by_name"
    /\ report.status = 200
    /\ report.totalHours = 36600
    /\ \E r \in report.tableData :
          /\ r.Date = store[1].DATE
          /\ r.TotalHours = 36600
          /\ r.SewingHours + r.NoFeedingHours
                = (store[1].END_TIME - store[1].START_TIME)
                    + (store[2].END_TIME - store[2].START_TIME)

\* C16: a date after today has no available time: its table rows report
\* 0 s, and a report whose dates all lie in the future has totalHours 0.
C16_FutureDayZero ==
    (report.view = "operator_reports_by_name" /\ report.status = 200)
        => /\ \A r \in report.tableData :
                 r.Date > report.today => r.TotalHours = 0
           /\ (\A d \in ReportDates(report) : d > report.today)
                 => report.totalHours = 0

\* The available seconds of today at clock reading now, as C19 states them:
\* the elapsed part of the shift window less every break whose end has been
\* reached.
ElapsedAvailable(now) ==
    (IF now < 30300 THEN 30300 ELSE IF now > 70500 THEN 70500 ELSE now) - 30300
        - (IF now >= 38400 THEN 600 ELSE 0)
        - (IF now >= 50400 THEN 2400 ELSE 0)
        - (IF now >= 59400 THEN 600 ELSE 0)

\* C19: for today the available time is the elapsed part of the shift
\* window less the full length of each break whose end has been reached
\* (now >= 38400, 50400, 59400), never negative, and 36600 s from the shift
\* end on; in every table row of today and in the summary of a report whose
\* only date is today.
C19_TodayAvailability ==
    (report.view = "operator_reports_by_name" /\ report.status = 200)
        => /\ \A r \in report.tableData :
                 r.Date = report.today
                     => /\ r.TotalHours = ElapsedAvailable(report.now)
                        /\ r.TotalHours >= 0
                        /\ (report.now >= 70500 => r.TotalHours = 36600)
           /\ ReportDates(report) = {report.today}
                 => report.totalHours = ElapsedAvailable(report.now)

(***************************************************************************)
(* Properties of the listings and of the report answers.                   *)
(***************************************************************************)
\* The mode code has no entry in the taxonomy: neither in MODES nor in the
\* ModeMessage table.
NoTaxonomyEntry(mode) ==
    /\ mode \notin {1, 2, 3, 4, 5}
    /\ ~\E mm \in ModeMessages : mm.mode = mode

\* C17: wherever a listing attaches a mode description to a stored record
\* (get_machine_logs through MachineLogSerializer, get_user_machine_logs
\* through UserMachineLogSerializer, filter_logs), a mode code with no
\* taxonomy entry is described as "Mode {code}".
C17_ModeLabelFallback ==
    report.view \in {"get_machine_logs", "filter_logs", "get_user_machine_logs"}
        => \A i \in 1..Len(report.logs) :
              NoTaxonomyEntry(report.logs[i].MODE)
                  => report.logs[i].mode_description
                        = "Mode " \o ToString(report.logs[i].MODE)

\* A line or machine report group with zero totals and no table rows.
EmptyGroup(g) ==
    /\ g.totalHours = 0
    /\ g.productiveHours = 0
    /\ g.nonProductiveHours = 0
    /\ g.totalStitchCount = 0
    /\ g.totalWorkingDays = 0
    /\ g.tableData = {}

\* line_reports and machine_reports asked for an id that no record has
\* answer with a successful report of zero totals and no table rows.
UnknownIdEmptyReport ==
    /\ (/\ report = NoReport
        /\ report'.view = "line_reports"
        /\ report'.key.k = "int"
        /\ ~\E i \in Rows(store) : store[i].LINE_NUMB = report'.key.n)
          => /\ report'.status = 200
             /\ \A g \in report'.reports : EmptyGroup(g)
    /\ (/\ report = NoReport
        /\ report'.view = "machine_reports"
        /\ report'.key.k = "int"
        /\ ~\E i \in Rows(store) : store[i].MACHINE_ID = report'.key.n)
          => /\ report'.status = 200
             /\ \A g \in report'.reports : EmptyGroup(g)

\* C18: an unknown group key gives an empty report, not an error:
\* operator_reports_by_name for a name no Operator has, and line_reports /
\* machine_reports for an id no record has, answer with status 200, zero
\* totals and an empty tableData.
C18_UnknownKeyEmptyReport ==
    [][/\ (/\ report = NoReport
           /\ report'.view = "operator_reports_by_name"
           /\ report'.name # "All"
           /\ ~\E o \in Operators : o.operator_name = report'.name)
             => /\ report'.status = 200
                /\ report'.totalHours = 0
                /\ report'.totalProductionHours = 0
                /\ report'.totalNonProductionHours = 0
                /\ report'.totalStitchCount = 0
                /\ report'.tableData = {}
       /\ UnknownIdEmptyReport]_vars

\* C20: one invocation of operator_reports_by_name works on one set of
\* records: the summary of an answered report agrees with its table rows
\* (totalStitchCount is the sum of their stitch counts, the production
\* hours the sum of their sewing hours, the available hours the sum over
\* their dates), also when log_machine_data inserts while the view runs.
C20_OneFixedFetch ==
    (report.view = "operator_reports_by_name" /\ report.status = 200)
        => /\ report.totalStitchCount
                 = Total([r \in report.tableData |-> r.StitchCount],
                         report.tableData)
           /\ report.totalProductionHours
                 = Total([r \in report.tableData |-> r.SewingHours],
                         report.tableData)
           /\ report.totalHours
                 = Total([d \in ReportDates(report) |->
                            (CHOOSE r \in report.tableData : r.Date = d).TotalHours],
                         ReportDates(report))

(***************************************************************************)
(* Properties of the report metrics.                                       *)
(***************************************************************************)
\* The seconds of mode m among the records an operator report counts.
CountedSeconds(rep, m) ==
    ModeSeconds(store, ByNameLogs(store, rep.name, rep.from, rep.to), m,
                SHIFT_START, SHIFT_END)

\* available - productive - tracked non-productive time, not below 0.
UntrackedIdle(rep) ==
    Max(rep.totalHours - CountedSeconds(rep, 1)
            - (CountedSeconds(rep, 2) + CountedSeconds(rep, 3)
                 + CountedSeconds(rep, 4) + CountedSeconds(rep, 5)), 0)

\* C21: in operator_reports_by_name, totalIdleHours is the time coded as
\* Idle (mode 2) plus the untracked idle time, where untracked idle =
\* max(available - productive - tracked non-productive time of every
\* non-productive mode, 0); also when the tracked time exceeds the
\* available time.
C21_IdleAccounting ==
    [][ByNameAnswers =>
          report'.totalIdleHours
              = CountedSeconds(report', 2) + UntrackedIdle(report')]_vars

\* The step in which machine_reports answers a request with a report.
MachineAnswers ==
    /\ report = NoReport
    /\ report'.view = "machine_reports"
    /\ report'.status = 200

\* The records the operator report rep is computed from.
ByNameGroup(rep) == ByNameLogs(store, rep.name, rep.from, rep.to)

\* The records the line (machine) report rep counts for line l (machine m).
LineGroup(rep, l) ==
    ShiftLogs(store, {i \in Rows(store) :
                         /\ store[i].OPERATOR_ID \in ValidOperatorIds
                         /\ store[i].LINE_NUMB = l
                         /\ InDates(store[i], rep.from, rep.to)})

MachineGroup(rep, m) ==
    ShiftLogs(store, {i \in Rows(store) :
                         /\ store[i].OPERATOR_ID \in ValidOperatorIds
                         /\ store[i].MACHINE_ID = m
                         /\ InDates(store[i], rep.from, rep.to)})

\* The productive records of S that carry a positive integer RESERVE.
ProductiveWithSpeed(S) ==
    {i \in S : /\ store[i].MODE = 1
               /\ store[i].RESERVE.k = "int"
               /\ store[i].RESERVE.n > 0}

\* Their mean RESERVE in hundredths, 0 when there is none.
ProductiveSpeed(S) ==
    LET V == ProductiveWithSpeed(S)
    IN  IF V = {} THEN 0
        ELSE Hundredths(Total([i \in V |-> store[i].RESERVE.n], V),
                        Cardinality(V))

\* C22: averageSewingSpeed of a report group (operator report, line report,
\* machine report) is the mean RESERVE of exactly the group's records whose
\* RESERVE is a positive integer and whose MODE is 1, and 0 when the group
\* has no such record.
C22_SewingSpeedOfProductiveRecords ==
    [][/\ ByNameAnswers =>
             report'.averageSewingSpeed = ProductiveSpeed(ByNameGroup(report'))
       /\ LineAnswers =>
             \A g \in report'.reports :
                g.averageSewingSpeed
                   = ProductiveSpeed(LineGroup(report', g.lineNumber))
       /\ MachineAnswers =>
             \A g \in report'.reports :
                g.averageSewingSpeed
                   = ProductiveSpeed(MachineGroup(report', g.machineId))]_vars

\* The needle runtime of the productive records of S, in seconds.
ProductiveNeedleSeconds(S) ==
    Total([i \in S |-> IF store[i].MODE = 1 THEN store[i].NEEDLE_RUNTIME ELSE 0], S)

\* (productive needle runtime / 3600) / productive hours * 100, in
\* hundredths of a percent; 0 when there are no productive hours.
ProductiveNeedleShare(S, productive) ==
    IF productive = 0 THEN 0
    ELSE Percent(ProductiveNeedleSeconds(S), productive)

\* C23: needleRuntimePercentage of a report group (operator report, line
\* report) is the needle runtime of the group's productive (MODE = 1)
\* records only, as hours, over the group's productive hours, times 100;
\* it is 0 when the productive hours are 0.
C23_NeedleRuntimeOfProductiveRecords ==
    [][/\ ByNameAnswers =>
             report'.needleRuntimePercentage
                = ProductiveNeedleShare(ByNameGroup(report'),
                                        report'.totalProductionHours)
       /\ LineAnswers =>
             \A g \in report'.reports :
                g.needleRuntimePercentage
                   = ProductiveNeedleShare(LineGroup(report', g.lineNumber),
                                           g.productiveHours)]_vars

\* The step in which line_reports answers a request for all lines.
AllLinesAnswer == LineAnswers /\ report'.key = All

\* The average of the per-line averageSewingSpeed weighted by the lines'
\* total hours (as the line reports carry them), 0 when the hours sum to 0.
HoursWeightedSpeed(reports) ==
    LET weight == Total([g \in reports |-> RoundedHours(g.totalHours)], reports)
    IN  IF weight = 0 THEN 0
        ELSE Rounded(Total([g \in reports |->
                               g.averageSewingSpeed * RoundedHours(g.totalHours)],
                           reports), weight)

\* The average of the per-line needleRuntimePercentage weighted by the
\* lines' productive hours, 0 when the productive hours sum to 0.
ProductiveWeightedNeedleShare(reports) ==
    LET weight == Total([g \in reports |-> RoundedHours(g.productiveHours)],
                        reports)
    IN  IF weight = 0 THEN 0
        ELSE Rounded(Total([g \in reports |->
                               g.needleRuntimePercentage
                                  * RoundedHours(g.productiveHours)], reports),
                     weight)

\* C24: in line_reports for all lines, the summary's averageSewingSpeed is
\* the total-hours-weighted average of the per-line averageSewingSpeed and
\* its needleRuntimePercentage the productive-hours-weighted average of the
\* per-line needleRuntimePercentage; both are 0 when the weights sum to 0.
C24_SummaryWeightedAverages ==
    [][AllLinesAnswer =>
          /\ report'.summary.averageSewingSpeed
                = HoursWeightedSpeed(report'.reports)
          /\ report'.summary.needleRuntimePercentage
                = ProductiveWeightedNeedleShare(report'.reports)]_vars

\* The step in which get_consolidated_logs answers a request.
ConsolidatedAnswers ==
    /\ report = NoReport
    /\ report'.view = "get_consolidated_logs"

\* The sewing records among the records the view selected for its answer to
\* the given filters have a NEEDLE_RUNTIME that sums to 0.
SewingNeedleZero(S) ==
    /\ SewingLogs(store, S) # {}
    /\ NeedleTotal(store, SewingLogs(store, S)) = 0

\* C25: no division is evaluated with a zero denominator; where the
\* denominator is 0 the value is 0.  For get_consolidated_logs: every
\* request is answered with its summary, and when the selected sewing
\* records' NEEDLE_RUNTIME sums to 0 the summary's sewing_speed is 0.
C25_ZeroDenominatorYieldsZero ==
    [][ConsolidatedAnswers =>
          /\ report'.status = 200
          /\ SewingNeedleZero(report'.logs) => report'.sewing_speed = 0]_vars

(***************************************************************************)
(* Properties of the break exclusion.                                      *)
(***************************************************************************)
\* Both endpoints of the record lie inside one and the same break window.
BothEndsInOneBreak(row) ==
    \E w \in BreakWindows :
        /\ w[1] <= row.START_TIME /\ row.START_TIME <= w[2]
        /\ w[1] <= row.END_TIME /\ row.END_TIME <= w[2]

\* The records of S that pass the working-hours filter and do not have both
\* endpoints inside one break.
KeptByBreakFilter(S) ==
    {i \in S : WithinShift(store[i]) /\ ~BothEndsInOneBreak(store[i])}

\* The records the line (machine) report rep asks about for line l
\* (machine m), before the time filters.
LineRequested(rep, l) ==
    {i \in Rows(store) : /\ store[i].OPERATOR_ID \in ValidOperatorIds
                         /\ store[i].LINE_NUMB = l
                         /\ InDates(store[i], rep.from, rep.to)}

MachineRequested(rep, m) ==
    {i \in Rows(store) : /\ store[i].OPERATOR_ID \in ValidOperatorIds
                         /\ store[i].MACHINE_ID = m
                         /\ InDates(store[i], rep.from, rep.to)}

\* C26: the break filter of line_reports and machine_reports drops a record
\* only if both of its endpoints lie inside the same break window, also
\* when its END_TIME is earlier than its START_TIME: every requested record
\* inside the working hours whose endpoints are not both inside one break
\* is counted, so each group's stitch count and working dates are those of
\* these records.
C26_BreakFilterNeedsBothEndpoints ==
    [][/\ (LineAnswers /\ report'.key.k = "int") =>
             \A g \in report'.reports :
                LET K == KeptByBreakFilter(LineRequested(report', g.lineNumber))
                IN  /\ g.totalStitchCount = StitchTotal(store, K)
                    /\ g.totalWorkingDays = Cardinality(DatesOf(store, K))
       /\ (MachineAnswers /\ report'.key.k = "int") =>
             \A g \in report'.reports :
                LET K == KeptByBreakFilter(MachineRequested(report', g.machineId))
                IN  /\ g.totalStitchCount = StitchTotal(store, K)
                    /\ g.totalWorkingDays = Cardinality(DatesOf(store, K))]_vars

(***************************************************************************)
(* Properties of the duplicate policy.                                     *)
(***************************************************************************)
\* Since the table was empty, exactly two calls were made, one after the
\* other: q submitted an event unmarked (1 <= Str_LOGID <= 1000) and p the
\* same event as a marked retry (Str_LOGID + 1000, every other field
\* identical); both calls have returned.
OriginalAndRetry(p, q) ==
    /\ p # q
    /\ calls = 2
    /\ ~overlap
    /\ Done(p) /\ Done(q)
    /\ Validated(p) /\ Validated(q)
    /\ req[q].Str_LOGID \in 1..LOGID_OFFSET
    /\ req[p] = [req[q] EXCEPT !.Str_LOGID = @ + LOGID_OFFSET]

\* C27, as stated: an event sent once unmarked and once as a marked retry
\* leaves exactly one stored record, whichever submission is processed
\* first.
C27_OrderIndependentDedup ==
    \A p, q \in Workers : OriginalAndRetry(p, q) => Len(store) = 1

\* C27, amended: the result depends on the order.  When the unmarked
\* submission is processed first, the marked retry is absorbed and one
\* record is stored; when the marked retry is processed first, the unmarked
\* submission is saved without a lookup and two records are stored.
C27_OrderDecidesDedup ==
    \A p, q \in Workers :
        OriginalAndRetry(p, q) =>
            /\ (startLen[q] = 0 => (Len(store) = 1 /\ created[p] = 0
                                      /\ created[q] = 1))
            /\ (startLen[p] = 0 => (Len(store) = 2 /\ created[p] = 1
                                      /\ created[q] = 2))
            /\ (startLen[p] = 0 \/ startLen[q] = 0)

\* The unmarked submission came first and the marked retry was absorbed.
C27_Witness ==
    \E p, q \in Workers :
        /\ OriginalAndRetry(p, q)
        /\ startLen[q] = 0
        /\ startLen[p] = 1
        /\ Len(store) = 1
        /\ Success(resp[p])

\* Row i matches the request of p in one of the two lookups: the log id
\* (Tx_LOGID or Str_LOGID of the request less 1000, for an id above 1000),
\* MACHINE_ID, DATE, START_TIME and END_TIME.
LookupMatch(p, i) ==
    /\ \/ (req[p].Tx_LOGID > 1000
             /\ store[i].Tx_LOGID = req[p].Tx_LOGID - 1000)
       \/ (req[p].Str_LOGID > 1000
             /\ store[i].Str_LOGID = req[p].Str_LOGID - 1000)
    /\ store[i].MACHINE_ID = vd[p].MACHINE_ID
    /\ store[i].DATE = vd[p].DATE
    /\ store[i].START_TIME = vd[p].START_TIME
    /\ store[i].END_TIME = vd[p].END_TIME

\* Row i and the request of p agree on MODE, OPERATOR_ID and LINE_NUMB.
SameDescription(p, i) ==
    /\ store[i].MODE = vd[p].MODE
    /\ store[i].OPERATOR_ID = vd[p].OPERATOR_ID
    /\ store[i].LINE_NUMB = vd[p].LINE_NUMB

\* The call of p passed validation and returned without saving a row.
Dropped(p) == Done(p) /\ Validated(p) /\ created[p] = 0

\* C28, as stated: a submission is dropped as a duplicate only if a stored
\* record agrees with it on MODE, OPERATOR_ID and LINE_NUMB as well as on
\* the matched log id, MACHINE_ID, DATE, START_TIME and END_TIME.
C28_DroppedOnlyIfFullMatch ==
    \A p \in Workers :
        Dropped(p) =>
            \E i \in Rows(store) : LookupMatch(p, i) /\ SameDescription(p, i)

\* C28, amended: a submission is dropped only if a stored record agrees
\* with it on the matched log id, MACHINE_ID, DATE, START_TIME and
\* END_TIME; MODE, OPERATOR_ID and LINE_NUMB are not compared, so a
\* submission that matches a record stored before it arrived is dropped
\* also when it differs from that record in MODE, OPERATOR_ID or LINE_NUMB.
C28_DroppedOnIdAndEventMatch ==
    \A p \in Workers :
        /\ Dropped(p) => \E i \in Rows(store) : LookupMatch(p, i)
        /\ (Done(p) /\ Validated(p)
              /\ \E i \in 1..startLen[p] :
                    LookupMatch(p, i) /\ ~SameDescription(p, i))
              => created[p] = 0

\* A retry carrying another MODE than the stored record it matches was
\* dropped, and no stored record agrees with it on the MODE.
C28_Witness ==
    \E p \in Workers :
        /\ Dropped(p)
        /\ Success(resp[p])
        /\ \E i \in 1..startLen[p] :
              LookupMatch(p, i) /\ store[i].MODE # vd[p].MODE
        /\ \A i \in Rows(store) : LookupMatch(p, i) => ~SameDescription(p, i)

\* C29: whatever log_machine_data calls were made since the table was
\* empty, every stored record has a MODE that is a key of the MODES
\* taxonomy.
C29_StoredModesInTaxonomy ==
    \A i \in Rows(store) : store[i].MODE \in MODES

\* A record is stored, and a later submission with the unknown mode 9,
\* otherwise well formed, was turned away with a 400 and left no row.
C29_Witness ==
    /\ Len(store) >= 1
    /\ \E p \in Workers :
          /\ Done(p)
          /\ req[p].MODE = Num(9)
          /\ SerializerValid(req[p])
          /\ resp[p] = BadRequest("Invalid mode")
          /\ startLen[p] >= 1
          /\ created[p] = 0

(***************************************************************************)
(* Properties of the consolidated summary.                                 *)
(***************************************************************************)
\* The total duration, in seconds, of the records of S whose MODE is m.
DurationOfMode(S, m) ==
    Total([i \in S |-> IF store[i].MODE = m
                       THEN store[i].END_TIME - store[i].START_TIME
                       ELSE 0], S)

\* C30: the per-mode buckets of get_consolidated_logs follow the MODES
\* taxonomy (3 = No feeding, 4 = Meeting): in every summary,
\* no_feeding_hours is the total duration of the selected MODE = 3 records
\* and meeting_hours the total duration of the selected MODE = 4 records.
C30_BucketsFollowTaxonomy ==
    [][(ConsolidatedAnswers /\ report'.status = 200) =>
          /\ report'.no_feeding_hours = DurationOfMode(report'.logs, 3)
          /\ report'.meeting_hours = DurationOfMode(report'.logs, 4)]_vars

====
